---- MODULE Spec2Model ----
(***************************************************************************)
(* Model of the NFT-minting instruction builder of the Lazorkit examples   *)
(* (app/examples/03-nft-minting/utils/metaplex.ts).                        *)
(*                                                                         *)
(* A JavaScript string is a sequence of UTF-16 code units, a Buffer is a   *)
(* sequence of bytes, a PublicKey is the sequence of its 32 bytes.  One     *)
(* behaviour is one invocation of createNFTInstructions, suspended at its  *)
(* two awaits.                                                             *)
(***************************************************************************)
EXTENDS Integers, Sequences, FiniteSets, TLC

\* ---------------------------------------------------------------------------
\* Bounds of the model
\* ---------------------------------------------------------------------------
NumMints == 2
NumPayers == 2
NumRents == 2

\* ---------------------------------------------------------------------------
\* Byte and string primitives
\* ---------------------------------------------------------------------------
Rep(c, n) == [i \in 1..n |-> c]

RECURSIVE Flatten(_)
Flatten(bufs) ==
    IF bufs = <<>> THEN <<>> ELSE Head(bufs) \o Flatten(Tail(bufs))

\* Buffer.concat
BufferConcat(bufs) == Flatten(bufs)

\* an unsigned integer v written little-endian on n bytes
RECURSIVE writeUIntLE(_, _)
writeUIntLE(v, n) ==
    IF n = 0 THEN <<>> ELSE <<v % 256>> \o writeUIntLE(v \div 256, n - 1)

IsHighSurrogate(c) == c >= 55296 /\ c <= 56319
IsLowSurrogate(c) == c >= 56320 /\ c <= 57343

\* UTF-8 bytes of the code point cp
utf8CodePoint(cp) ==
    IF cp < 128 THEN <<cp>>
    ELSE IF cp < 2048 THEN <<192 + (cp \div 64), 128 + (cp % 64)>>
    ELSE IF cp < 65536
         THEN <<224 + (cp \div 4096), 128 + ((cp \div 64) % 64), 128 + (cp % 64)>>
         ELSE <<240 + (cp \div 262144), 128 + ((cp \div 4096) % 64),
                128 + ((cp \div 64) % 64), 128 + (cp % 64)>>

\* the concatenation of chunks[lo], ..., chunks[hi], by halving so that the
\* evaluation depth stays logarithmic in the length
RECURSIVE ConcatRange(_, _, _)
ConcatRange(chunks, lo, hi) ==
    IF lo > hi THEN <<>>
    ELSE IF lo = hi THEN chunks[lo]
    ELSE LET mid == (lo + hi) \div 2
         IN  ConcatRange(chunks, lo, mid) \o ConcatRange(chunks, mid + 1, hi)

\* the code unit at position i is the first half of a surrogate pair
PairStartsAt(str, i) ==
    i >= 1 /\ i < Len(str) /\ IsHighSurrogate(str[i]) /\ IsLowSurrogate(str[i + 1])

\* the code point of the surrogate pair that starts at position i
PairCodePoint(str, i) == 65536 + (str[i] - 55296) * 1024 + (str[i + 1] - 56320)

\* Buffer.from(str, "utf-8"), the bytes written for position i: a surrogate
\* pair is one code point (written at its first half), a lone surrogate is
\* written as U+FFFD
utf8Chunk(str, i) ==
    LET c == str[i] IN
    IF PairStartsAt(str, i) THEN utf8CodePoint(PairCodePoint(str, i))
    ELSE IF PairStartsAt(str, i - 1) THEN <<>>
    ELSE IF IsHighSurrogate(c) \/ IsLowSurrogate(c) THEN utf8CodePoint(65533)
    ELSE utf8CodePoint(c)

BufferFromUtf8(str) == ConcatRange([i \in 1 .. Len(str) |-> utf8Chunk(str, i)], 1, Len(str))

\* new Uint16Array([v]).buffer: ToUint16 conversion, two bytes (little-endian host)
Uint16ArrayBuffer(v) == writeUIntLE(v % 65536, 2)

\* ---------------------------------------------------------------------------
\* Addresses as text: base58
\* ---------------------------------------------------------------------------
\* "123456789ABCDEFGHJKLMNPQRSTUVWXYZabcdefghijkmnopqrstuvwxyz"
BASE58_ALPHABET ==
    << 49, 50, 51, 52, 53, 54, 55, 56, 57, 65, 66, 67, 68, 69, 70, 71, 72,
       74, 75, 76, 77, 78, 80, 81, 82, 83, 84, 85, 86, 87, 88, 89, 90, 97,
       98, 99, 100, 101, 102, 103, 104, 105, 106, 107, 109, 110, 111, 112,
       113, 114, 115, 116, 117, 118, 119, 120, 121, 122 >>

IsBase58Char(c) == \E d \in 1 .. Len(BASE58_ALPHABET) : BASE58_ALPHABET[d] = c

\* the value of a base58 character, 0 .. 57
Base58Digit(c) == (CHOOSE d \in 1 .. Len(BASE58_ALPHABET) : BASE58_ALPHABET[d] = c) - 1

\* acc * factor + carry on a little-endian byte sequence without high zero
\* bytes, from byte i on
RECURSIVE MulAdd(_, _, _, _)
MulAdd(acc, factor, i, carry) ==
    IF i > Len(acc)
    THEN IF carry = 0 THEN <<>>
         ELSE << carry % 256 >> \o MulAdd(acc, factor, i, carry \div 256)
    ELSE LET v == acc[i] * factor + carry
         IN  << v % 256 >> \o MulAdd(acc, factor, i + 1, v \div 256)

\* the number written by the first n characters, little-endian; three
\* characters are taken at a time where there are three: 58^3 = 195112
RECURSIVE Base58Value(_, _)
Base58Value(str, n) ==
    IF n = 0 THEN <<>>
    ELSE IF n < 3 THEN MulAdd(Base58Value(str, n - 1), 58, 1, Base58Digit(str[n]))
    ELSE MulAdd(Base58Value(str, n - 3), 195112, 1,
                Base58Digit(str[n - 2]) * 3364 + Base58Digit(str[n - 1]) * 58
                    + Base58Digit(str[n]))

\* the number of leading "1" characters: each stands for a zero byte
RECURSIVE LeadingOnes(_, _)
LeadingOnes(str, i) ==
    IF i <= Len(str) /\ str[i] = 49 THEN 1 + LeadingOnes(str, i + 1) ELSE 0

Reverse(seq) == [i \in 1 .. Len(seq) |-> seq[Len(seq) + 1 - i]]

\* bs58.decode of a string of base58 characters: the zero bytes of the
\* leading "1"s, then the number big-endian
bs58decode(str) == Rep(0, LeadingOnes(str, 1)) \o Reverse(Base58Value(str, Len(str)))

\* new PublicKey(str) does not throw: str is base58 and decodes to 32 bytes
isValidPublicKey(str) ==
    /\ \A i \in 1 .. Len(str) : IsBase58Char(str[i])
    /\ Len(bs58decode(str)) = 32

\* ---------------------------------------------------------------------------
\* Natural numbers of any size
\* ---------------------------------------------------------------------------
\* A natural number of any size is the sequence of its digits to the base
\* 2^15, the lowest first and the highest not 0; <<>> is 0.
RECURSIVE BigTrim(_)
BigTrim(a) ==
    IF a # <<>> /\ a[Len(a)] = 0 THEN BigTrim(SubSeq(a, 1, Len(a) - 1)) ELSE a

RECURSIVE BigOfInt(_)
BigOfInt(n) == IF n = 0 THEN <<>> ELSE << n % 32768 >> \o BigOfInt(n \div 32768)

\* the number as an integer of the model, for numbers below 2^31
RECURSIVE BigToInt(_)
BigToInt(a) == IF a = <<>> THEN 0 ELSE a[1] + 32768 * BigToInt(Tail(a))

\* a * k + carry, for 0 < k < 2^15 and carry < 2^15
RECURSIVE BigMulSmall(_, _, _)
BigMulSmall(a, k, carry) ==
    IF a = <<>> THEN BigOfInt(carry)
    ELSE << (a[1] * k + carry) % 32768 >>
             \o BigMulSmall(Tail(a), k, (a[1] * k + carry) \div 32768)

RECURSIVE BigAddCarry(_, _, _)
BigAddCarry(a, b, carry) ==
    IF a = <<>> /\ b = <<>> THEN BigOfInt(carry)
    ELSE IF a = <<>> THEN BigAddCarry(<< 0 >>, b, carry)
    ELSE IF b = <<>> THEN BigAddCarry(a, << 0 >>, carry)
    ELSE << (a[1] + b[1] + carry) % 32768 >>
             \o BigAddCarry(Tail(a), Tail(b), (a[1] + b[1] + carry) \div 32768)

BigAdd(a, b) == BigTrim(BigAddCarry(a, b, 0))

\* a - b - borrow, for a >= b + borrow
RECURSIVE BigSubBorrow(_, _, _)
BigSubBorrow(a, b, borrow) ==
    IF a = <<>> THEN <<>>
    ELSE IF b = <<>> THEN BigSubBorrow(a, << 0 >>, borrow)
    ELSE << (a[1] - b[1] - borrow + 32768) % 32768 >>
             \o BigSubBorrow(Tail(a), Tail(b), IF a[1] - b[1] - borrow < 0 THEN 1 ELSE 0)

BigSub(a, b) == BigTrim(BigSubBorrow(a, b, 0))

\* a < b, from the highest digit i down, for numbers of the same length
RECURSIVE BigLessFrom(_, _, _)
BigLessFrom(a, b, i) ==
    IF i = 0 THEN FALSE
    ELSE IF a[i] # b[i] THEN a[i] < b[i]
    ELSE BigLessFrom(a, b, i - 1)

BigLess(a, b) ==
    IF Len(a) # Len(b) THEN Len(a) < Len(b) ELSE BigLessFrom(a, b, Len(a))

RECURSIVE BigMul(_, _)
BigMul(a, b) ==
    IF a = <<>> \/ b = <<>> THEN <<>>
    ELSE BigAdd(IF b[1] = 0 THEN <<>> ELSE BigMulSmall(a, b[1], 0),
                IF Len(b) = 1 THEN <<>> ELSE << 0 >> \o BigMul(a, Tail(b)))

\* a * 10^n
RECURSIVE BigMulPow10(_, _)
BigMulPow10(a, n) ==
    IF n = 0 \/ a = <<>> THEN a
    ELSE IF n >= 4 THEN BigMulPow10(BigMulSmall(a, 10000, 0), n - 4)
    ELSE BigMulPow10(BigMulSmall(a, 10, 0), n - 1)

\* the digits 1 .. i of a divided by d, for 0 < d < 2^15, with r < d carried in
\* from the digits above: the quotient (not trimmed) and the remainder
BigDivStep(rest, digit) == [q |-> rest.q \o << digit >>, r |-> rest.r]

RECURSIVE BigDivSmallFrom(_, _, _, _)
BigDivSmallFrom(a, d, i, r) ==
    IF i = 0 \/ r >= d THEN [q |-> <<>>, r |-> r]
    ELSE BigDivStep(BigDivSmallFrom(a, d, i - 1, (r * 32768 + a[i]) % d),
                    (r * 32768 + a[i]) \div d)

BigDivTrim(res) == [q |-> BigTrim(res.q), r |-> res.r]

BigDivSmall(a, d) == BigDivTrim(BigDivSmallFrom(a, d, Len(a), 0))

RECURSIVE Pow2(_)
Pow2(n) == IF n = 0 THEN 1 ELSE 2 * Pow2(n - 1)

RECURSIVE BitLen(_)
BitLen(n) == IF n = 0 THEN 0 ELSE 1 + BitLen(n \div 2)

BigBitLen(a) == IF a = <<>> THEN 0 ELSE 15 * (Len(a) - 1) + BitLen(a[Len(a)])

BigIsOdd(a) == a # <<>> /\ a[1] % 2 = 1

\* ---------------------------------------------------------------------------
\* SHA-256 (FIPS 180-4), as sha256 of @noble/hashes computes it
\* ---------------------------------------------------------------------------
\* A 32-bit word is the pair << high, low >> of its 16-bit halves.
RECURSIVE BitAnd(_, _)
BitAnd(a, b) ==
    IF a = 0 \/ b = 0 THEN 0 ELSE (a % 2) * (b % 2) + 2 * BitAnd(a \div 2, b \div 2)

\* a & b for 4-bit numbers, tabulated
And4 == [a \in 1 .. 16 |-> [b \in 1 .. 16 |-> BitAnd(a - 1, b - 1)]]

And16(a, b) ==
    And4[(a % 16) + 1][(b % 16) + 1]
        + 16 * And4[((a \div 16) % 16) + 1][((b \div 16) % 16) + 1]
        + 256 * And4[((a \div 256) % 16) + 1][((b \div 256) % 16) + 1]
        + 4096 * And4[(a \div 4096) + 1][(b \div 4096) + 1]

Xor16(a, b) == a + b - 2 * And16(a, b)

WordAnd(x, y) == << And16(x[1], y[1]), And16(x[2], y[2]) >>
WordXor(x, y) == << Xor16(x[1], y[1]), Xor16(x[2], y[2]) >>
WordNot(x) == << 65535 - x[1], 65535 - x[2] >>

\* x >>> r, for 0 < r < 16, with p = 2^r
ShiftHalves(hi, lo, p) == << hi \div p, (lo \div p) + (hi % p) * (65536 \div p) >>
\* x rotated right by r, for 0 < r < 16, with p = 2^r
RotateHalves(hi, lo, p) ==
    << (hi \div p) + (lo % p) * (65536 \div p), (lo \div p) + (hi % p) * (65536 \div p) >>

shr(x, r) == ShiftHalves(x[1], x[2], Pow2(r))
rotr(x, r) ==
    IF r = 16 THEN << x[2], x[1] >>
    ELSE IF r < 16 THEN RotateHalves(x[1], x[2], Pow2(r))
    ELSE RotateHalves(x[2], x[1], Pow2(r - 16))

\* the sum modulo 2^32 of the words of a sequence
RECURSIVE SumHalf(_, _)
SumHalf(words, half) ==
    IF words = <<>> THEN 0 ELSE Head(words)[half] + SumHalf(Tail(words), half)

WordSum(words) ==
    << (SumHalf(words, 1) + (SumHalf(words, 2) \div 65536)) % 65536,
       SumHalf(words, 2) % 65536 >>

Xor3(x, y, z) == WordXor(WordXor(x, y), z)
SmallSigma0(x) == Xor3(rotr(x, 7), rotr(x, 18), shr(x, 3))
SmallSigma1(x) == Xor3(rotr(x, 17), rotr(x, 19), shr(x, 10))
BigSigma0(x) == Xor3(rotr(x, 2), rotr(x, 13), rotr(x, 22))
BigSigma1(x) == Xor3(rotr(x, 6), rotr(x, 11), rotr(x, 25))
Ch(x, y, z) == WordXor(WordAnd(x, y), WordAnd(WordNot(x), z))
Maj(x, y, z) == Xor3(WordAnd(x, y), WordAnd(x, z), WordAnd(y, z))

SHA256_K ==
    << << 17034, 12184 >>, << 28983, 17553 >>, << 46528, 64463 >>, << 59829, 56229 >>,
       << 14678, 49755 >>, << 23025, 4593 >>, << 37439, 33444 >>, << 43804, 24277 >>,
       << 55303, 43672 >>, << 4739, 23297 >>, << 9265, 34238 >>, << 21772, 32195 >>,
       << 29374, 23924 >>, << 32990, 45566 >>, << 39900, 1703 >>, << 49563, 61812 >>,
       << 58523, 27073 >>, << 61374, 18310 >>, << 4033, 40390 >>, << 9228, 41420 >>,
       << 11753, 11375 >>, << 19060, 33962 >>, << 23728, 43484 >>, << 30457, 35034 >>,
       << 38974, 20818 >>, << 43057, 50797 >>, << 45059, 10184 >>, << 48985, 32711 >>,
       << 50912, 3059 >>, << 54695, 37191 >>, << 1738, 25425 >>, << 5161, 10599 >>,
       << 10167, 2693 >>, << 11803, 8504 >>, << 19756, 28156 >>, << 21304, 3347 >>,
       << 25866, 29524 >>, << 30314, 2747 >>, << 33218, 51502 >>, << 37490, 11397 >>,
       << 41663, 59553 >>, << 43034, 26187 >>, << 49739, 35696 >>, << 51052, 20899 >>,
       << 53650, 59417 >>, << 54937, 1572 >>, << 62478, 13701 >>, << 4202, 41072 >>,
       << 6564, 49430 >>, << 7735, 27656 >>, << 10056, 30540 >>, << 13488, 48309 >>,
       << 14620, 3251 >>, << 20184, 43594 >>, << 23452, 51791 >>, << 26670, 28659 >>,
       << 29839, 33518 >>, << 30885, 25455 >>, << 33992, 30740 >>, << 36039, 520 >>,
       << 37054, 65530 >>, << 42064, 27883 >>, << 48889, 41975 >>, << 50801, 30962 >> >>

SHA256_IV ==
    << << 27145, 58983 >>, << 47975, 44677 >>, << 15470, 62322 >>, << 42319, 62778 >>,
       << 20750, 21119 >>, << 39685, 26764 >>, << 8067, 55723 >>, << 23520, 52505 >> >>

\* the message with its padding: the byte 0x80, zero bytes up to 56 modulo 64,
\* and the length in bits on 8 bytes, big-endian (messages below 2^16 bytes)
sha256Pad(msg) ==
    msg \o << 128 >> \o Rep(0, (119 - (Len(msg) % 64)) % 64)
        \o << 0, 0, 0, 0, 0, (Len(msg) * 8) \div 65536,
              ((Len(msg) * 8) \div 256) % 256, (Len(msg) * 8) % 256 >>

\* the 16 big-endian words of the 64-byte block that starts after offset
BlockWords(bytes, offset) ==
    [i \in 1 .. 16 |-> << bytes[offset + 4 * i - 3] * 256 + bytes[offset + 4 * i - 2],
                          bytes[offset + 4 * i - 1] * 256 + bytes[offset + 4 * i] >>]

\* the message schedule, n words added to the 16 words of the block; the test
\* of w has TLC evaluate the words so far before it goes on
ScheduleWord(w) ==
    Append(w, WordSum(<< SmallSigma1(w[Len(w) - 1]), w[Len(w) - 6],
                         SmallSigma0(w[Len(w) - 14]), w[Len(w) - 15] >>))

RECURSIVE Schedule(_, _)
Schedule(w, n) ==
    IF Len(w) = 64 THEN w
    ELSE IF n = 1 THEN ScheduleWord(w)
    ELSE Schedule(Schedule(w, n \div 2), n - (n \div 2))

\* one round on the working variables s = << a, b, c, d, e, f, g, h >>
RoundOf(s, t1, t2) ==
    << WordSum(<< t1, t2 >>), s[1], s[2], s[3], WordSum(<< s[4], t1 >>), s[5], s[6], s[7] >>

Round(s, k, w) ==
    RoundOf(s, WordSum(<< s[8], BigSigma1(s[5]), Ch(s[5], s[6], s[7]), k, w >>),
            WordSum(<< BigSigma0(s[1]), Maj(s[1], s[2], s[3]) >>))

\* the rounds from .. to; the test of s has TLC evaluate the working variables
\* of the rounds before
RECURSIVE Rounds(_, _, _, _)
Rounds(s, w, from, to) ==
    IF Len(s) # 8 THEN s
    ELSE IF from = to THEN Round(s, SHA256_K[from], w[from])
    ELSE Rounds(Rounds(s, w, from, (from + to) \div 2), w, ((from + to) \div 2) + 1, to)

AddState(h, s) == [i \in 1 .. 8 |-> WordSum(<< h[i], s[i] >>)]

Compress(h, w) == AddState(h, Rounds(h, w, 1, 64))

\* the hash state after the blocks from .. to of the padded message
RECURSIVE Blocks(_, _, _, _)
Blocks(h, bytes, from, to) ==
    IF from > to THEN h
    ELSE Blocks(Compress(h, Schedule(BlockWords(bytes, 64 * (from - 1)), 48)),
                bytes, from + 1, to)

WordBytes(x) == << x[1] \div 256, x[1] % 256, x[2] \div 256, x[2] % 256 >>

StateBytes(h) == [i \in 1 .. 32 |-> WordBytes(h[(i + 3) \div 4])[((i - 1) % 4) + 1]]

Digest(bytes) == StateBytes(Blocks(SHA256_IV, bytes, 1, Len(bytes) \div 64))

sha256(msg) == Digest(sha256Pad(msg))

\* ---------------------------------------------------------------------------
\* The curve ed25519: PublicKey.isOnCurve
\* ---------------------------------------------------------------------------
\* the field prime 2^255 - 19 and the curve constant d = -121665 / 121666
ED25519_P == << 32749 >> \o Rep(32767, 16)

ED25519_D ==
    << 30883, 9906, 14120, 12122, 2743, 10299, 4944, 14341, 6144, 29649, 26077,
       14851, 14540, 32718, 2779, 13943, 20995 >>

\* the number of the bytes i .. Len(bytes), little-endian
RECURSIVE BigOfBytesLE(_, _)
BigOfBytesLE(bytes, i) ==
    IF i > Len(bytes) THEN <<>>
    ELSE BigMulSmall(BigOfBytesLE(bytes, i + 1), 256, bytes[i])

\* 2^255 = 19 modulo p: the digits above the 17th, times 19, added to the rest
FoldP(a) ==
    IF Len(a) <= 17 THEN a
    ELSE BigAdd(BigTrim(SubSeq(a, 1, 17)), BigMulSmall(SubSeq(a, 18, Len(a)), 19, 0))

LessP(a) == IF BigLess(a, ED25519_P) THEN a ELSE BigSub(a, ED25519_P)

\* a modulo p, for a < p * p
ModP(a) == LessP(FoldP(FoldP(a)))

\* The product of two numbers by columns: column k gathers the low 15 bits
\* of the digit products a[i] * b[k + 1 - i] and the high 15 bits of the
\* products of the column before; the carries are taken up afterwards.
RECURSIVE ColumnSum(_, _, _, _)
ColumnSum(a, b, k, i) ==
    IF i > Len(a) \/ i > k THEN 0
    ELSE (IF k + 1 - i <= Len(b) THEN (a[i] * b[k + 1 - i]) % 32768 ELSE 0)
         + (IF i < k /\ k - i <= Len(b) THEN (a[i] * b[k - i]) \div 32768 ELSE 0)
         + ColumnSum(a, b, k, i + 1)

RECURSIVE CarryUp(_, _, _)
CarryUp(columns, k, carry) ==
    IF k > Len(columns) THEN BigOfInt(carry)
    ELSE << (columns[k] + carry) % 32768 >>
             \o CarryUp(columns, k + 1, (columns[k] + carry) \div 32768)

BigProduct(a, b) ==
    BigTrim(CarryUp([k \in 1 .. (Len(a) + Len(b)) |-> ColumnSum(a, b, k, 1)], 1, 0))

MulP(a, b) == ModP(BigProduct(a, b))

BigHalf(a) == BigDivSmall(a, 2).q

\* The Jacobi symbol (a / n) for odd n, by the binary algorithm: the state is
\* the pair still to evaluate and the sign gathered so far; the symbol is
\* sign when n has come down to 1, and 0 when a has come down to 0 before.
JacobiStep(s) ==
    IF s.a = <<>> THEN s
    ELSE IF ~BigIsOdd(s.a)
    THEN [a |-> BigHalf(s.a), n |-> s.n,
          sign |-> IF s.n[1] % 8 \in { 3, 5 } THEN -s.sign ELSE s.sign]
    ELSE IF BigLess(s.a, s.n)
    THEN [a |-> BigSub(s.n, s.a), n |-> s.a,
          sign |-> IF s.a[1] % 4 = 3 /\ s.n[1] % 4 = 3 THEN -s.sign ELSE s.sign]
    ELSE [a |-> BigSub(s.a, s.n), n |-> s.n, sign |-> s.sign]

RECURSIVE JacobiSteps(_, _)
JacobiSteps(s, n) ==
    IF s.a = <<>> \/ n = 1 THEN JacobiStep(s)
    ELSE JacobiSteps(JacobiSteps(s, n \div 2), n - (n \div 2))

JacobiOf(s) == IF s.n = << 1 >> THEN s.sign ELSE 0

\* for a < p; the two numbers lose a bit at least every second step
IsSquareP(a) == JacobiOf(JacobiSteps([a |-> a, n |-> ED25519_P, sign |-> 1], 1024)) # -1

\* y with y * y in yy is the ordinate of a point: x * x = (yy - 1) / (d * yy + 1)
\* has a root x, and x is not 0 where the sign bit asks for a negative x
HasAbscissa(u, v, negative) ==
    IF u = <<>> THEN ~negative ELSE IsSquareP(MulP(u, v))

PointOf(yy, negative) ==
    HasAbscissa(ModP(BigAdd(yy, BigSub(ED25519_P, << 1 >>))),
                ModP(BigAdd(MulP(ED25519_D, yy), << 1 >>)), negative)

OrdinateOnCurve(y, negative) == BigLess(y, ED25519_P) /\ PointOf(MulP(y, y), negative)

\* PublicKey.isOnCurve: the 32 bytes are the encoding of a point, the
\* ordinate little-endian with the sign of the abscissa in the highest bit
isOnCurve(bytes) ==
    OrdinateOnCurve(BigOfBytesLE([i \in 1 .. 32 |-> IF i = 32 THEN bytes[i] % 128 ELSE bytes[i]], 1),
                    bytes[32] >= 128)

\* ---------------------------------------------------------------------------
\* Well-known identities (program ids and sysvars)
\* ---------------------------------------------------------------------------
\* SystemProgram.programId: "11111111111111111111111111111111"
SYSTEM_PROGRAM_ID ==
    bs58decode(
        << 49, 49, 49, 49, 49, 49, 49, 49, 49, 49, 49, 49, 49, 49, 49, 49, 49,
           49, 49, 49, 49, 49, 49, 49, 49, 49, 49, 49, 49, 49, 49, 49 >>)

\* "TokenkegQfeZyiNwAJbNbGKPFXCWuBvf9Ss623VQ5DA"
TOKEN_PROGRAM_ID ==
    bs58decode(
        << 84, 111, 107, 101, 110, 107, 101, 103, 81, 102, 101, 90, 121, 105,
           78, 119, 65, 74, 98, 78, 98, 71, 75, 80, 70, 88, 67, 87, 117, 66,
           118, 102, 57, 83, 115, 54, 50, 51, 86, 81, 53, 68, 65 >>)

\* "ATokenGPvbdGVxr1b2hvZbsiqW5xWH25efTNsLJA8knL"
ASSOCIATED_TOKEN_PROGRAM_ID ==
    bs58decode(
        << 65, 84, 111, 107, 101, 110, 71, 80, 118, 98, 100, 71, 86, 120, 114,
           49, 98, 50, 104, 118, 90, 98, 115, 105, 113, 87, 53, 120, 87, 72,
           50, 53, 101, 102, 84, 78, 115, 76, 74, 65, 56, 107, 110, 76 >>)

\* "metaqbxxUerdq28cj1RbAWkYQm3ybzjb6a8bt518x1s"
TOKEN_METADATA_PROGRAM_ID ==
    bs58decode(
        << 109, 101, 116, 97, 113, 98, 120, 120, 85, 101, 114, 100, 113, 50,
           56, 99, 106, 49, 82, 98, 65, 87, 107, 89, 81, 109, 51, 121, 98, 122,
           106, 98, 54, 97, 56, 98, 116, 53, 49, 56, 120, 49, 115 >>)

\* "SysvarRent111111111111111111111111111111111"
SYSVAR_RENT_PUBKEY ==
    bs58decode(
        << 83, 121, 115, 118, 97, 114, 82, 101, 110, 116, 49, 49, 49, 49, 49,
           49, 49, 49, 49, 49, 49, 49, 49, 49, 49, 49, 49, 49, 49, 49, 49, 49,
           49, 49, 49, 49, 49, 49, 49, 49, 49, 49, 49 >>)

MINT_SIZE == 82

\* payers are the identities 10, 11, ... on 32 bytes, little-endian
Payers == { writeUIntLE(10 + n, 32) : n \in 0 .. (NumPayers - 1) }

\* The public keys of the ed25519 key pairs whose secret seeds are 32 bytes
\* 1, 32 bytes 2, 32 bytes 3 and 32 bytes 4: what Keypair.fromSeed returns
\* for them, and what Keypair.generate() returns when it draws these seeds.
\* "AKnL4NNf3DGWZJS6cPknBuEGnVsV4A4m5tgebLHaRSZ9"
\* "9hSR6S7WPtxmTojgo6GG3k4yDPecgJY292j7xrsUGWBu"
\* "GyGKxMyg1p9SsHfm15MkNUu1u9TN2JtTspcdmrtGUdse"
\* "EdmxWPmx2WH6WgFfTdu9xfkYf3k1g5wD1zccTVySEEh1"
MintKeyPool ==
    << << 138, 136, 227, 221, 116, 9, 241, 149, 253, 82, 219, 45, 60, 186, 93,
          114, 202, 103, 9, 191, 29, 148, 18, 27, 243, 116, 136, 1, 180, 15,
          111, 92 >>,
       << 129, 57, 119, 14, 168, 125, 23, 95, 86, 163, 84, 102, 195, 76, 126,
          204, 203, 141, 138, 145, 180, 238, 55, 162, 93, 246, 15, 91, 143,
          201, 179, 148 >>,
       << 237, 73, 40, 198, 40, 209, 194, 198, 234, 233, 3, 56, 144, 89, 149,
          97, 41, 89, 39, 58, 92, 99, 249, 54, 54, 193, 70, 20, 172, 135, 55,
          209 >>,
       << 202, 147, 172, 23, 5, 24, 112, 113, 214, 123, 131, 199, 255, 14, 254,
          129, 8, 232, 236, 69, 48, 87, 93, 119, 38, 135, 147, 51, 219, 218,
          190, 124 >> >>

MintKeys == { MintKeyPool[n] : n \in 1 .. NumMints }

\* the keys Keypair.generate() returns where two invocations run side by
\* side, and on the mint page
ConcMintKeys == { MintKeyPool[1], MintKeyPool[2] }
PageMintKeys == { MintKeyPool[1], MintKeyPool[2] }

\* the smart wallet that is connected on the mint page
PageWallets == { writeUIntLE(10, 32) }

\* rent-exemption minima: 1461600, 1461601, ... lamports
RentValues == 1461600 .. (1461600 + NumRents - 1)
RentErrors == {"ExternalQueryFailed", "NetworkTimeout"}

\* PublicKey.toBuffer(): the 32 bytes
toBuffer(pk) == pk

\* ---------------------------------------------------------------------------
\* Address derivation
\* ---------------------------------------------------------------------------
\* "ProgramDerivedAddress"
PDA_MARKER ==
    << 80, 114, 111, 103, 114, 97, 109, 68, 101, 114, 105, 118, 101, 100, 65,
       100, 100, 114, 101, 115, 115 >>

\* PublicKey.createProgramAddressSync: the SHA-256 of the seeds, the program
\* id and the marker; << address >>, or <<>> where it throws, for a seed of
\* more than 32 bytes and for a hash that is a point of the curve
OffCurve(address) == IF isOnCurve(address) THEN <<>> ELSE << address >>

createProgramAddressSync(seeds, programId) ==
    IF \E n \in 1 .. Len(seeds) : Len(seeds[n]) > 32 THEN <<>>
    ELSE OffCurve(sha256(Flatten(seeds) \o toBuffer(programId) \o PDA_MARKER))

\* The search of PublicKey.findProgramAddressSync: the nonce goes from 255
\* down to 1 as one more seed until createProgramAddressSync does not throw;
\* << address, nonce >>, or <<>> where no nonce is left
RECURSIVE FindNonce(_, _, _)
TryNonce(seeds, programId, nonce, found) ==
    IF found # <<>> THEN << found[1], nonce >>
    ELSE FindNonce(seeds, programId, nonce - 1)

FindNonce(seeds, programId, nonce) ==
    IF nonce = 0 THEN <<>>
    ELSE TryNonce(seeds, programId, nonce,
                  createProgramAddressSync(Append(seeds, << nonce >>), programId))

Seed_metadata == <<109, 101, 116, 97, 100, 97, 116, 97>>
Seed_edition == <<101, 100, 105, 116, 105, 111, 110>>

\* the seed list of the metadata PDA
metadataSeeds(mint) ==
    << BufferFromUtf8(Seed_metadata),
       toBuffer(TOKEN_METADATA_PROGRAM_ID),
       toBuffer(mint) >>

\* variant: the final seed "edition" is left out
masterEditionSeeds_NoEditionSeed(mint) ==
    << BufferFromUtf8(Seed_metadata),
       toBuffer(TOKEN_METADATA_PROGRAM_ID),
       toBuffer(mint) >>

\* the seed list of the master-edition PDA
masterEditionSeeds(mint) ==
    << BufferFromUtf8(Seed_metadata),
       toBuffer(TOKEN_METADATA_PROGRAM_ID),
       toBuffer(mint),
       BufferFromUtf8(Seed_edition) >>

\* the seed list of the associated token account of owner for mint
associatedTokenSeeds(mint, owner) ==
    << toBuffer(owner), toBuffer(TOKEN_PROGRAM_ID), toBuffer(mint) >>

\* The searches for the keys of the model are made once: the seed lists with
\* their program, and what the search finds for each.
ModelMintKeys == MintKeys \cup ConcMintKeys \cup PageMintKeys
ModelPayers == Payers \cup PageWallets

ModelSeeds ==
    { << metadataSeeds(k), TOKEN_METADATA_PROGRAM_ID >> : k \in ModelMintKeys }
        \cup { << masterEditionSeeds(k), TOKEN_METADATA_PROGRAM_ID >> : k \in ModelMintKeys }
        \cup { << associatedTokenSeeds(k, w), ASSOCIATED_TOKEN_PROGRAM_ID >> :
                   k \in ModelMintKeys, w \in ModelPayers }

ProgramAddresses == { << e[1], e[2], FindNonce(e[1], e[2], 255) >> : e \in ModelSeeds }

\* PublicKey.findProgramAddressSync: << address, nonce >>
findProgramAddressSync(seeds, programId) ==
    IF \E e \in ProgramAddresses : e[1] = seeds /\ e[2] = programId
    THEN (CHOOSE e \in ProgramAddresses : e[1] = seeds /\ e[2] = programId)[3]
    ELSE FindNonce(seeds, programId, 255)

\* const [metadataAddress] = PublicKey.findProgramAddressSync(...)
getMetadataAddress(mint) ==
    findProgramAddressSync(metadataSeeds(mint), TOKEN_METADATA_PROGRAM_ID)[1]

getMasterEditionAddress(mint) ==
    findProgramAddressSync(masterEditionSeeds(mint), TOKEN_METADATA_PROGRAM_ID)[1]

\* getAssociatedTokenAddress(mint, owner, allowOwnerOffCurve = true)
getAssociatedTokenAddress(mint, owner) ==
    findProgramAddressSync(associatedTokenSeeds(mint, owner),
                           ASSOCIATED_TOKEN_PROGRAM_ID)[1]
\* ---------------------------------------------------------------------------
\* Instructions
\* ---------------------------------------------------------------------------
AccountMeta(pk, signer, writable) ==
    [pubkey |-> pk, isSigner |-> signer, isWritable |-> writable]

TransactionInstruction(k, p, d) == [keys |-> k, programId |-> p, data |-> d]

\* SystemProgram.createAccount
SystemProgram_createAccount(fromPubkey, newAccountPubkey, space, lamports, programId) ==
    TransactionInstruction(
        << AccountMeta(fromPubkey, TRUE, TRUE),
           AccountMeta(newAccountPubkey, TRUE, TRUE) >>,
        SYSTEM_PROGRAM_ID,
        BufferConcat(<< writeUIntLE(0, 4), writeUIntLE(lamports, 8),
                        writeUIntLE(space, 8), toBuffer(programId) >>))

\* createInitializeMintInstruction
createInitializeMintInstruction(mint, decimals, mintAuthority, freezeAuthority, programId) ==
    TransactionInstruction(
        << AccountMeta(mint, FALSE, TRUE),
           AccountMeta(SYSVAR_RENT_PUBKEY, FALSE, FALSE) >>,
        programId,
        BufferConcat(<< <<0>>, <<decimals>>, toBuffer(mintAuthority),
                        <<1>>, toBuffer(freezeAuthority) >>))

\* createAssociatedTokenAccountInstruction
createAssociatedTokenAccountInstruction(payer, associatedToken, owner, mint, programId, associatedTokenProgramId) ==
    TransactionInstruction(
        << AccountMeta(payer, TRUE, TRUE),
           AccountMeta(associatedToken, FALSE, TRUE),
           AccountMeta(owner, FALSE, FALSE),
           AccountMeta(mint, FALSE, FALSE),
           AccountMeta(SYSTEM_PROGRAM_ID, FALSE, FALSE),
           AccountMeta(programId, FALSE, FALSE) >>,
        associatedTokenProgramId,
        <<>>)

\* createMintToInstruction with no multisig signers
createMintToInstruction(mint, destination, authority, amount, programId) ==
    TransactionInstruction(
        << AccountMeta(mint, FALSE, TRUE),
           AccountMeta(destination, FALSE, TRUE),
           AccountMeta(authority, TRUE, FALSE) >>,
        programId,
        BufferConcat(<< <<7>>, writeUIntLE(amount, 8) >>))

\* variant: the length prefix counts UTF-16 code units (str.length)
serializeString_CharCount(str) ==
    LET strBuffer == BufferFromUtf8(str)
        lenBuffer == writeUIntLE(Len(str), 4)
    IN  BufferConcat(<< lenBuffer, strBuffer >>)

serializeString(str) ==
    LET strBuffer == BufferFromUtf8(str)
        lenBuffer == writeUIntLE(Len(strBuffer), 4)
    IN  BufferConcat(<< lenBuffer, strBuffer >>)

createMetadataData(name, symbol, uri, sellerFeeBasisPoints) ==
    BufferConcat(<<
        <<33>>,
        serializeString(name),
        serializeString(symbol),
        serializeString(uri),
        Uint16ArrayBuffer(sellerFeeBasisPoints),
        <<0>>,
        <<0>>,
        <<0>>,
        <<1>>,
        <<0>> >>)

\* variant: the update authority is marked as a signer
createMetadataKeys_UpdateAuthoritySigner(metadataAccount, mint, mintAuthority, payer, updateAuthority) ==
    << AccountMeta(metadataAccount, FALSE, TRUE),
       AccountMeta(mint, FALSE, FALSE),
       AccountMeta(mintAuthority, TRUE, FALSE),
       AccountMeta(payer, TRUE, TRUE),
       AccountMeta(updateAuthority, TRUE, FALSE),
       AccountMeta(SYSTEM_PROGRAM_ID, FALSE, FALSE),
       AccountMeta(SYSVAR_RENT_PUBKEY, FALSE, FALSE) >>

createMetadataKeys(metadataAccount, mint, mintAuthority, payer, updateAuthority) ==
    << AccountMeta(metadataAccount, FALSE, TRUE),
       AccountMeta(mint, FALSE, FALSE),
       AccountMeta(mintAuthority, TRUE, FALSE),
       AccountMeta(payer, TRUE, TRUE),
       AccountMeta(updateAuthority, FALSE, FALSE),
       AccountMeta(SYSTEM_PROGRAM_ID, FALSE, FALSE),
       AccountMeta(SYSVAR_RENT_PUBKEY, FALSE, FALSE) >>

createMetadataInstruction(metadataAccount, mint, mintAuthority, payer, updateAuthority, name, symbol, uri, sellerFeeBasisPoints) ==
    TransactionInstruction(
        createMetadataKeys(metadataAccount, mint, mintAuthority, payer, updateAuthority),
        TOKEN_METADATA_PROGRAM_ID,
        createMetadataData(name, symbol, uri, sellerFeeBasisPoints))

\* variant: max supply None, as the comment above the buffer reads
createMasterEditionData_NoMaxSupply ==
    BufferConcat(<< <<17>>, <<0>> >>)

createMasterEditionData ==
    LET maxSupplyBuffer == writeUIntLE(0, 8)
    IN  BufferConcat(<< <<17>>, <<1>>, maxSupplyBuffer >>)

\* variant: the metadata account is passed readonly and the token program
\* reference is left out
createMasterEditionKeys_NoTokenProgram(edition, mint, updateAuthority, mintAuthority, metadata, payer) ==
    << AccountMeta(edition, FALSE, TRUE),
       AccountMeta(mint, FALSE, TRUE),
       AccountMeta(updateAuthority, TRUE, FALSE),
       AccountMeta(mintAuthority, TRUE, FALSE),
       AccountMeta(payer, TRUE, TRUE),
       AccountMeta(metadata, FALSE, FALSE),
       AccountMeta(SYSTEM_PROGRAM_ID, FALSE, FALSE),
       AccountMeta(SYSVAR_RENT_PUBKEY, FALSE, FALSE) >>

createMasterEditionKeys(edition, mint, updateAuthority, mintAuthority, metadata, payer) ==
    << AccountMeta(edition, FALSE, TRUE),
       AccountMeta(mint, FALSE, TRUE),
       AccountMeta(updateAuthority, TRUE, FALSE),
       AccountMeta(mintAuthority, TRUE, FALSE),
       AccountMeta(payer, TRUE, TRUE),
       AccountMeta(metadata, FALSE, TRUE),
       AccountMeta(TOKEN_PROGRAM_ID, FALSE, FALSE),
       AccountMeta(SYSTEM_PROGRAM_ID, FALSE, FALSE),
       AccountMeta(SYSVAR_RENT_PUBKEY, FALSE, FALSE) >>

createMasterEditionInstruction(edition, mint, updateAuthority, mintAuthority, metadata, payer) ==
    TransactionInstruction(
        createMasterEditionKeys(edition, mint, updateAuthority, mintAuthority,
                                metadata, payer),
        TOKEN_METADATA_PROGRAM_ID,
        createMasterEditionData)

\* metadata.sellerFeeBasisPoints || 0: an absent or zero royalty is 0
sellerFeeBasisPointsOr0(md) ==
    IF "sellerFeeBasisPoints" \in DOMAIN md THEN md.sellerFeeBasisPoints ELSE 0

\* variant: the master edition is pushed before the metadata account
assembleInstructions_EditionFirst(payerKey, mintAddr, tokenAcc, metadataAddr, masterEditionAddr, rent, md) ==
    << SystemProgram_createAccount(payerKey, mintAddr, MINT_SIZE, rent, TOKEN_PROGRAM_ID),
       createInitializeMintInstruction(mintAddr, 0, payerKey, payerKey, TOKEN_PROGRAM_ID),
       createAssociatedTokenAccountInstruction(payerKey, tokenAcc, payerKey, mintAddr,
                                               TOKEN_PROGRAM_ID,
                                               ASSOCIATED_TOKEN_PROGRAM_ID),
       createMintToInstruction(mintAddr, tokenAcc, payerKey, 1, TOKEN_PROGRAM_ID),
       createMasterEditionInstruction(masterEditionAddr, mintAddr, payerKey, payerKey,
                                      metadataAddr, payerKey),
       createMetadataInstruction(metadataAddr, mintAddr, payerKey, payerKey, payerKey,
                                 md.name, md.symbol, md.uri,
                                 sellerFeeBasisPointsOr0(md)) >>

\* variant: the mint is initialized with 9 decimals and no freeze authority
\* of the payer
assembleInstructions_Decimals9(payerKey, mintAddr, tokenAcc, metadataAddr, masterEditionAddr, rent, md) ==
    << SystemProgram_createAccount(payerKey, mintAddr, MINT_SIZE, rent, TOKEN_PROGRAM_ID),
       createInitializeMintInstruction(mintAddr, 9, payerKey, mintAddr, TOKEN_PROGRAM_ID),
       createAssociatedTokenAccountInstruction(payerKey, tokenAcc, payerKey, mintAddr,
                                               TOKEN_PROGRAM_ID,
                                               ASSOCIATED_TOKEN_PROGRAM_ID),
       createMintToInstruction(mintAddr, tokenAcc, payerKey, 1, TOKEN_PROGRAM_ID),
       createMetadataInstruction(metadataAddr, mintAddr, payerKey, payerKey, payerKey,
                                 md.name, md.symbol, md.uri,
                                 sellerFeeBasisPointsOr0(md)),
       createMasterEditionInstruction(masterEditionAddr, mintAddr, payerKey, payerKey,
                                      metadataAddr, payerKey) >>

\* variant: two units are minted
assembleInstructions_MintTwo(payerKey, mintAddr, tokenAcc, metadataAddr, masterEditionAddr, rent, md) ==
    << SystemProgram_createAccount(payerKey, mintAddr, MINT_SIZE, rent, TOKEN_PROGRAM_ID),
       createInitializeMintInstruction(mintAddr, 0, payerKey, payerKey, TOKEN_PROGRAM_ID),
       createAssociatedTokenAccountInstruction(payerKey, tokenAcc, payerKey, mintAddr,
                                               TOKEN_PROGRAM_ID,
                                               ASSOCIATED_TOKEN_PROGRAM_ID),
       createMintToInstruction(mintAddr, tokenAcc, payerKey, 2, TOKEN_PROGRAM_ID),
       createMetadataInstruction(metadataAddr, mintAddr, payerKey, payerKey, payerKey,
                                 md.name, md.symbol, md.uri,
                                 sellerFeeBasisPointsOr0(md)),
       createMasterEditionInstruction(masterEditionAddr, mintAddr, payerKey, payerKey,
                                      metadataAddr, payerKey) >>

\* variant: the account is funded with the size instead of the rent minimum
assembleInstructions_RentIsSize(payerKey, mintAddr, tokenAcc, metadataAddr, masterEditionAddr, rent, md) ==
    << SystemProgram_createAccount(payerKey, mintAddr, MINT_SIZE, MINT_SIZE, TOKEN_PROGRAM_ID),
       createInitializeMintInstruction(mintAddr, 0, payerKey, payerKey, TOKEN_PROGRAM_ID),
       createAssociatedTokenAccountInstruction(payerKey, tokenAcc, payerKey, mintAddr,
                                               TOKEN_PROGRAM_ID,
                                               ASSOCIATED_TOKEN_PROGRAM_ID),
       createMintToInstruction(mintAddr, tokenAcc, payerKey, 1, TOKEN_PROGRAM_ID),
       createMetadataInstruction(metadataAddr, mintAddr, payerKey, payerKey, payerKey,
                                 md.name, md.symbol, md.uri,
                                 sellerFeeBasisPointsOr0(md)),
       createMasterEditionInstruction(masterEditionAddr, mintAddr, payerKey, payerKey,
                                      metadataAddr, payerKey) >>

\* variant: the description is written where the uri belongs when one is given
assembleInstructions_DescriptionAsUri(payerKey, mintAddr, tokenAcc, metadataAddr, masterEditionAddr, rent, md) ==
    << SystemProgram_createAccount(payerKey, mintAddr, MINT_SIZE, rent, TOKEN_PROGRAM_ID),
       createInitializeMintInstruction(mintAddr, 0, payerKey, payerKey, TOKEN_PROGRAM_ID),
       createAssociatedTokenAccountInstruction(payerKey, tokenAcc, payerKey, mintAddr,
                                               TOKEN_PROGRAM_ID,
                                               ASSOCIATED_TOKEN_PROGRAM_ID),
       createMintToInstruction(mintAddr, tokenAcc, payerKey, 1, TOKEN_PROGRAM_ID),
       createMetadataInstruction(metadataAddr, mintAddr, payerKey, payerKey, payerKey,
                                 md.name, md.symbol,
                                 IF md.description # <<>> THEN md.description ELSE md.uri,
                                 sellerFeeBasisPointsOr0(md)),
       createMasterEditionInstruction(masterEditionAddr, mintAddr, payerKey, payerKey,
                                      metadataAddr, payerKey) >>

\* the instruction list createNFTInstructions pushes, in order
assembleInstructions(payerKey, mintAddr, tokenAcc, metadataAddr, masterEditionAddr, rent, md) ==
    << SystemProgram_createAccount(payerKey, mintAddr, MINT_SIZE, rent, TOKEN_PROGRAM_ID),
       createInitializeMintInstruction(mintAddr, 0, payerKey, payerKey, TOKEN_PROGRAM_ID),
       createAssociatedTokenAccountInstruction(payerKey, tokenAcc, payerKey, mintAddr,
                                               TOKEN_PROGRAM_ID,
                                               ASSOCIATED_TOKEN_PROGRAM_ID),
       createMintToInstruction(mintAddr, tokenAcc, payerKey, 1, TOKEN_PROGRAM_ID),
       createMetadataInstruction(metadataAddr, mintAddr, payerKey, payerKey, payerKey,
                                 md.name, md.symbol, md.uri,
                                 sellerFeeBasisPointsOr0(md)),
       createMasterEditionInstruction(masterEditionAddr, mintAddr, payerKey, payerKey,
                                      metadataAddr, payerKey) >>

\* ---------------------------------------------------------------------------
\* Inputs of an invocation
\* ---------------------------------------------------------------------------
\* names: "N", 32 x "a", 33 x "a", 17 x U+00E9 (34 UTF-8 bytes), one emoji
\* (a surrogate pair), a lone high surrogate
Names == { <<78>>, Rep(97, 32), Rep(97, 33), Rep(233, 17),
           <<55357, 56832>>, <<55357>> }
\* symbols: "S", 10 x "S", 11 x "S", the euro sign
Symbols == { <<83>>, Rep(83, 10), Rep(83, 11), <<8364>> }
\* uris: "U", the empty string, "ar://x"
Uris == { <<85>>, <<>>, <<97, 114, 58, 47, 47, 120>> }
Descriptions == { <<>>, <<68>> }
Royalties == { 0, 250, 10000, 10001, 65535, 65786, -1 }

MetadataInputs ==
    [name : Names, symbol : Symbols, description : Descriptions, uri : Uris]
    \cup
    [name : Names, symbol : Symbols, description : Descriptions, uri : Uris,
     sellerFeeBasisPoints : Royalties]

\* ---------------------------------------------------------------------------
\* State of one invocation of createNFTInstructions
\* ---------------------------------------------------------------------------
VARIABLES
    pc,                    \* "idle", "awaitTokenAccount", "awaitRent", "returned", "rejected"
    payer,                 \* argument payer (<<>> before the call)
    metadata,              \* argument metadata (<<>> before the call)
    mintKeypair,           \* <<>> or the one generated keypair
    mintAddress,
    tokenAccount,
    metadataAddress,
    masterEditionAddress,
    mintRent,
    instructions,          \* the local array of instructions
    result,                \* <<>> or the one value the promise resolved with
    thrown,                \* "" or the error the promise rejected with
    rentQueries,           \* calls of getMinimumBalanceForRentExemptMint
    rentFailure            \* "" or the error the rent query rejected with

builderVars == << pc, payer, metadata, mintKeypair, mintAddress, tokenAccount,
                  metadataAddress, masterEditionAddress, mintRent, instructions,
                  result, thrown, rentQueries, rentFailure >>

\* ---------------------------------------------------------------------------
\* State of several invocations of createNFTInstructions running side by side
\* ---------------------------------------------------------------------------
\* ---------------------------------------------------------------------------
\* Text functions of the pages
\* ---------------------------------------------------------------------------
\* String.prototype.includes
includes(str, sub) ==
    \E i \in 1 .. (Len(str) - Len(sub) + 1) : SubSeq(str, i, i + Len(sub) - 1) = sub

\* the white space String.prototype.trim removes
IsWhiteSpace(c) ==
    \/ c \in { 9, 10, 11, 12, 13, 32, 160, 5760, 8232, 8233, 8239, 8287, 12288, 65279 }
    \/ (c >= 8192 /\ c <= 8202)

\* str.trim() is the empty string
TrimIsEmpty(str) == \A i \in 1 .. Len(str) : IsWhiteSpace(str[i])

\* String.prototype.toUpperCase: the upper-case mapping of the Unicode Character
\* Database, which does not depend on the locale, in its version 17.0 (an
\* engine with older tables leaves the letters unchanged whose upper case it
\* does not know yet: 55 code points have got one since 14.0). UpperCaseRuns
\* holds the code points whose upper case is one other code point, as runs
\* << first, last, step, delta >>: first, first + step, ... up to last map to
\* themselves plus delta
UpperCaseRuns ==
    {
      << 97, 122, 1, -32 >>, << 181, 181, 1, 743 >>, << 224, 246, 1, -32 >>,
      << 248, 254, 1, -32 >>, << 255, 255, 1, 121 >>, << 257, 303, 2, -1 >>,
      << 305, 305, 1, -232 >>, << 307, 311, 2, -1 >>, << 314, 328, 2, -1 >>,
      << 331, 375, 2, -1 >>, << 378, 382, 2, -1 >>, << 383, 383, 1, -300 >>,
      << 384, 384, 1, 195 >>, << 387, 389, 2, -1 >>, << 392, 392, 1, -1 >>,
      << 396, 396, 1, -1 >>, << 402, 402, 1, -1 >>, << 405, 405, 1, 97 >>,
      << 409, 409, 1, -1 >>, << 410, 410, 1, 163 >>, << 411, 411, 1, 42561 >>,
      << 414, 414, 1, 130 >>, << 417, 421, 2, -1 >>, << 424, 424, 1, -1 >>,
      << 429, 429, 1, -1 >>, << 432, 432, 1, -1 >>, << 436, 438, 2, -1 >>,
      << 441, 441, 1, -1 >>, << 445, 445, 1, -1 >>, << 447, 447, 1, 56 >>,
      << 453, 453, 1, -1 >>, << 454, 454, 1, -2 >>, << 456, 456, 1, -1 >>,
      << 457, 457, 1, -2 >>, << 459, 459, 1, -1 >>, << 460, 460, 1, -2 >>,
      << 462, 476, 2, -1 >>, << 477, 477, 1, -79 >>, << 479, 495, 2, -1 >>,
      << 498, 498, 1, -1 >>, << 499, 499, 1, -2 >>, << 501, 501, 1, -1 >>,
      << 505, 543, 2, -1 >>, << 547, 563, 2, -1 >>, << 572, 572, 1, -1 >>,
      << 575, 576, 1, 10815 >>, << 578, 578, 1, -1 >>, << 583, 591, 2, -1 >>,
      << 592, 592, 1, 10783 >>, << 593, 593, 1, 10780 >>,
      << 594, 594, 1, 10782 >>, << 595, 595, 1, -210 >>,
      << 596, 596, 1, -206 >>, << 598, 599, 1, -205 >>,
      << 601, 601, 1, -202 >>, << 603, 603, 1, -203 >>,
      << 604, 604, 1, 42319 >>, << 608, 608, 1, -205 >>,
      << 609, 609, 1, 42315 >>, << 611, 611, 1, -207 >>,
      << 612, 612, 1, 42343 >>, << 613, 613, 1, 42280 >>,
      << 614, 614, 1, 42308 >>, << 616, 616, 1, -209 >>,
      << 617, 617, 1, -211 >>, << 618, 618, 1, 42308 >>,
      << 619, 619, 1, 10743 >>, << 620, 620, 1, 42305 >>,
      << 623, 623, 1, -211 >>, << 625, 625, 1, 10749 >>,
      << 626, 626, 1, -213 >>, << 629, 629, 1, -214 >>,
      << 637, 637, 1, 10727 >>, << 640, 640, 1, -218 >>,
      << 642, 642, 1, 42307 >>, << 643, 643, 1, -218 >>,
      << 647, 647, 1, 42282 >>, << 648, 648, 1, -218 >>,
      << 649, 649, 1, -69 >>, << 650, 651, 1, -217 >>, << 652, 652, 1, -71 >>,
      << 658, 658, 1, -219 >>, << 669, 669, 1, 42261 >>,
      << 670, 670, 1, 42258 >>, << 837, 837, 1, 84 >>, << 881, 883, 2, -1 >>,
      << 887, 887, 1, -1 >>, << 891, 893, 1, 130 >>, << 940, 940, 1, -38 >>,
      << 941, 943, 1, -37 >>, << 945, 961, 1, -32 >>, << 962, 962, 1, -31 >>,
      << 963, 971, 1, -32 >>, << 972, 972, 1, -64 >>, << 973, 974, 1, -63 >>,
      << 976, 976, 1, -62 >>, << 977, 977, 1, -57 >>, << 981, 981, 1, -47 >>,
      << 982, 982, 1, -54 >>, << 983, 983, 1, -8 >>, << 985, 1007, 2, -1 >>,
      << 1008, 1008, 1, -86 >>, << 1009, 1009, 1, -80 >>,
      << 1010, 1010, 1, 7 >>, << 1011, 1011, 1, -116 >>,
      << 1013, 1013, 1, -96 >>, << 1016, 1016, 1, -1 >>,
      << 1019, 1019, 1, -1 >>, << 1072, 1103, 1, -32 >>,
      << 1104, 1119, 1, -80 >>, << 1121, 1153, 2, -1 >>,
      << 1163, 1215, 2, -1 >>, << 1218, 1230, 2, -1 >>,
      << 1231, 1231, 1, -15 >>, << 1233, 1327, 2, -1 >>,
      << 1377, 1414, 1, -48 >>, << 4304, 4346, 1, 3008 >>,
      << 4349, 4351, 1, 3008 >>, << 5112, 5117, 1, -8 >>,
      << 7296, 7296, 1, -6254 >>, << 7297, 7297, 1, -6253 >>,
      << 7298, 7298, 1, -6244 >>, << 7299, 7300, 1, -6242 >>,
      << 7301, 7301, 1, -6243 >>, << 7302, 7302, 1, -6236 >>,
      << 7303, 7303, 1, -6181 >>, << 7304, 7304, 1, 35266 >>,
      << 7306, 7306, 1, -1 >>, << 7545, 7545, 1, 35332 >>,
      << 7549, 7549, 1, 3814 >>, << 7566, 7566, 1, 35384 >>,
      << 7681, 7829, 2, -1 >>, << 7835, 7835, 1, -59 >>,
      << 7841, 7935, 2, -1 >>, << 7936, 7943, 1, 8 >>, << 7952, 7957, 1, 8 >>,
      << 7968, 7975, 1, 8 >>, << 7984, 7991, 1, 8 >>, << 8000, 8005, 1, 8 >>,
      << 8017, 8023, 2, 8 >>, << 8032, 8039, 1, 8 >>, << 8048, 8049, 1, 74 >>,
      << 8050, 8053, 1, 86 >>, << 8054, 8055, 1, 100 >>,
      << 8056, 8057, 1, 128 >>, << 8058, 8059, 1, 112 >>,
      << 8060, 8061, 1, 126 >>, << 8112, 8113, 1, 8 >>,
      << 8126, 8126, 1, -7205 >>, << 8144, 8145, 1, 8 >>,
      << 8160, 8161, 1, 8 >>, << 8165, 8165, 1, 7 >>,
      << 8526, 8526, 1, -28 >>, << 8560, 8575, 1, -16 >>,
      << 8580, 8580, 1, -1 >>, << 9424, 9449, 1, -26 >>,
      << 11312, 11359, 1, -48 >>, << 11361, 11361, 1, -1 >>,
      << 11365, 11365, 1, -10795 >>, << 11366, 11366, 1, -10792 >>,
      << 11368, 11372, 2, -1 >>, << 11379, 11379, 1, -1 >>,
      << 11382, 11382, 1, -1 >>, << 11393, 11491, 2, -1 >>,
      << 11500, 11502, 2, -1 >>, << 11507, 11507, 1, -1 >>,
      << 11520, 11557, 1, -7264 >>, << 11559, 11559, 1, -7264 >>,
      << 11565, 11565, 1, -7264 >>, << 42561, 42605, 2, -1 >>,
      << 42625, 42651, 2, -1 >>, << 42787, 42799, 2, -1 >>,
      << 42803, 42863, 2, -1 >>, << 42874, 42876, 2, -1 >>,
      << 42879, 42887, 2, -1 >>, << 42892, 42892, 1, -1 >>,
      << 42897, 42899, 2, -1 >>, << 42900, 42900, 1, 48 >>,
      << 42903, 42921, 2, -1 >>, << 42933, 42947, 2, -1 >>,
      << 42952, 42954, 2, -1 >>, << 42957, 42971, 2, -1 >>,
      << 42998, 42998, 1, -1 >>, << 43859, 43859, 1, -928 >>,
      << 43888, 43967, 1, -38864 >>, << 65345, 65370, 1, -32 >>,
      << 66600, 66639, 1, -40 >>, << 66776, 66811, 1, -40 >>,
      << 66967, 66977, 1, -39 >>, << 66979, 66993, 1, -39 >>,
      << 66995, 67001, 1, -39 >>, << 67003, 67004, 1, -39 >>,
      << 68800, 68850, 1, -64 >>, << 68976, 68997, 1, -32 >>,
      << 71872, 71903, 1, -32 >>, << 93792, 93823, 1, -32 >>,
      << 93883, 93907, 1, -27 >>, << 125218, 125251, 1, -34 >>
    }

\* the code units whose upper case is a longer text (SpecialCasing)
UpperCaseSpecial ==
    {
      << 223, << 83, 83 >> >>, << 329, << 700, 78 >> >>,
      << 496, << 74, 780 >> >>, << 912, << 921, 776, 769 >> >>,
      << 944, << 933, 776, 769 >> >>, << 1415, << 1333, 1362 >> >>,
      << 7830, << 72, 817 >> >>, << 7831, << 84, 776 >> >>,
      << 7832, << 87, 778 >> >>, << 7833, << 89, 778 >> >>,
      << 7834, << 65, 702 >> >>, << 8016, << 933, 787 >> >>,
      << 8018, << 933, 787, 768 >> >>, << 8020, << 933, 787, 769 >> >>,
      << 8022, << 933, 787, 834 >> >>, << 8064, << 7944, 921 >> >>,
      << 8065, << 7945, 921 >> >>, << 8066, << 7946, 921 >> >>,
      << 8067, << 7947, 921 >> >>, << 8068, << 7948, 921 >> >>,
      << 8069, << 7949, 921 >> >>, << 8070, << 7950, 921 >> >>,
      << 8071, << 7951, 921 >> >>, << 8072, << 7944, 921 >> >>,
      << 8073, << 7945, 921 >> >>, << 8074, << 7946, 921 >> >>,
      << 8075, << 7947, 921 >> >>, << 8076, << 7948, 921 >> >>,
      << 8077, << 7949, 921 >> >>, << 8078, << 7950, 921 >> >>,
      << 8079, << 7951, 921 >> >>, << 8080, << 7976, 921 >> >>,
      << 8081, << 7977, 921 >> >>, << 8082, << 7978, 921 >> >>,
      << 8083, << 7979, 921 >> >>, << 8084, << 7980, 921 >> >>,
      << 8085, << 7981, 921 >> >>, << 8086, << 7982, 921 >> >>,
      << 8087, << 7983, 921 >> >>, << 8088, << 7976, 921 >> >>,
      << 8089, << 7977, 921 >> >>, << 8090, << 7978, 921 >> >>,
      << 8091, << 7979, 921 >> >>, << 8092, << 7980, 921 >> >>,
      << 8093, << 7981, 921 >> >>, << 8094, << 7982, 921 >> >>,
      << 8095, << 7983, 921 >> >>, << 8096, << 8040, 921 >> >>,
      << 8097, << 8041, 921 >> >>, << 8098, << 8042, 921 >> >>,
      << 8099, << 8043, 921 >> >>, << 8100, << 8044, 921 >> >>,
      << 8101, << 8045, 921 >> >>, << 8102, << 8046, 921 >> >>,
      << 8103, << 8047, 921 >> >>, << 8104, << 8040, 921 >> >>,
      << 8105, << 8041, 921 >> >>, << 8106, << 8042, 921 >> >>,
      << 8107, << 8043, 921 >> >>, << 8108, << 8044, 921 >> >>,
      << 8109, << 8045, 921 >> >>, << 8110, << 8046, 921 >> >>,
      << 8111, << 8047, 921 >> >>, << 8114, << 8122, 921 >> >>,
      << 8115, << 913, 921 >> >>, << 8116, << 902, 921 >> >>,
      << 8118, << 913, 834 >> >>, << 8119, << 913, 834, 921 >> >>,
      << 8124, << 913, 921 >> >>, << 8130, << 8138, 921 >> >>,
      << 8131, << 919, 921 >> >>, << 8132, << 905, 921 >> >>,
      << 8134, << 919, 834 >> >>, << 8135, << 919, 834, 921 >> >>,
      << 8140, << 919, 921 >> >>, << 8146, << 921, 776, 768 >> >>,
      << 8147, << 921, 776, 769 >> >>, << 8150, << 921, 834 >> >>,
      << 8151, << 921, 776, 834 >> >>, << 8162, << 933, 776, 768 >> >>,
      << 8163, << 933, 776, 769 >> >>, << 8164, << 929, 787 >> >>,
      << 8166, << 933, 834 >> >>, << 8167, << 933, 776, 834 >> >>,
      << 8178, << 8186, 921 >> >>, << 8179, << 937, 921 >> >>,
      << 8180, << 911, 921 >> >>, << 8182, << 937, 834 >> >>,
      << 8183, << 937, 834, 921 >> >>, << 8188, << 937, 921 >> >>,
      << 64256, << 70, 70 >> >>, << 64257, << 70, 73 >> >>,
      << 64258, << 70, 76 >> >>, << 64259, << 70, 70, 73 >> >>,
      << 64260, << 70, 70, 76 >> >>, << 64261, << 83, 84 >> >>,
      << 64262, << 83, 84 >> >>, << 64275, << 1348, 1350 >> >>,
      << 64276, << 1348, 1333 >> >>, << 64277, << 1348, 1339 >> >>,
      << 64278, << 1358, 1350 >> >>, << 64279, << 1348, 1341 >> >>
    }

\* the upper case of a code point that has a one-code-point upper case or none
UpperCodePoint(cp) ==
    LET runs == { r \in UpperCaseRuns :
                     cp >= r[1] /\ cp <= r[2] /\ (cp - r[1]) % r[3] = 0 }
    IN  IF runs = {} THEN cp ELSE cp + (CHOOSE r \in runs : TRUE)[4]

\* the upper case of a code unit outside a surrogate pair
UpperCodeUnit(c) ==
    LET special == { p \in UpperCaseSpecial : p[1] = c }
    IN  IF special = {} THEN << UpperCodePoint(c) >> ELSE (CHOOSE p \in special : TRUE)[2]

\* the surrogate pair of a code point above 65535
SurrogatePair(cp) == << 55296 + ((cp - 65536) \div 1024), 56320 + ((cp - 65536) % 1024) >>

\* the text written for position i: a surrogate pair is one code point
\* (written at its first half), a lone surrogate stays
toUpperCaseChunk(str, i) ==
    IF PairStartsAt(str, i) THEN SurrogatePair(UpperCodePoint(PairCodePoint(str, i)))
    ELSE IF PairStartsAt(str, i - 1) THEN <<>>
    ELSE UpperCodeUnit(str[i])

toUpperCase(str) ==
    ConcatRange([i \in 1 .. Len(str) |-> toUpperCaseChunk(str, i)], 1, Len(str))

HexLower(d) == IF d < 10 THEN 48 + d ELSE 87 + d
HexUpper(d) == IF d < 10 THEN 48 + d ELSE 55 + d

\* the code unit at position i is a surrogate without its other half
IsLoneSurrogate(str, i) ==
    /\ IsHighSurrogate(str[i]) \/ IsLowSurrogate(str[i])
    /\ ~PairStartsAt(str, i)
    /\ ~PairStartsAt(str, i - 1)

\* JSON.stringify of a string, the text written for position i
QuoteJSONChunk(str, i) ==
    LET c == str[i] IN
    IF c = 34 THEN << 92, 34 >>
    ELSE IF c = 92 THEN << 92, 92 >>
    ELSE IF c = 8 THEN << 92, 98 >>
    ELSE IF c = 9 THEN << 92, 116 >>
    ELSE IF c = 10 THEN << 92, 110 >>
    ELSE IF c = 12 THEN << 92, 102 >>
    ELSE IF c = 13 THEN << 92, 114 >>
    ELSE IF c < 32 \/ IsLoneSurrogate(str, i)
         THEN << 92, 117, HexLower(c \div 4096), HexLower((c \div 256) % 16),
                 HexLower((c \div 16) % 16), HexLower(c % 16) >>
    ELSE << c >>

\* JSON.stringify of a string: the quoted and escaped text
QuoteJSONString(str) ==
    << 34 >> \o ConcatRange([i \in 1 .. Len(str) |-> QuoteJSONChunk(str, i)], 1, Len(str))
       \o << 34 >>

\* the characters encodeURIComponent leaves alone: A-Z a-z 0-9 - _ . ! ~ * ' ( )
IsUriUnreserved(c) ==
    \/ (c >= 65 /\ c <= 90)
    \/ (c >= 97 /\ c <= 122)
    \/ (c >= 48 /\ c <= 57)
    \/ c \in { 45, 95, 46, 33, 126, 42, 39, 40, 41 }

\* %XX for every byte
PercentEncode(bytes) ==
    ConcatRange([i \in 1 .. Len(bytes) |->
                    << 37, HexUpper(bytes[i] \div 16), HexUpper(bytes[i] % 16) >>],
                1, Len(bytes))

\* encodeURIComponent, the text written for position i
encodeURIChunk(str, i) ==
    LET c == str[i] IN
    IF PairStartsAt(str, i) THEN PercentEncode(utf8CodePoint(PairCodePoint(str, i)))
    ELSE IF PairStartsAt(str, i - 1) THEN <<>>
    ELSE IF IsUriUnreserved(c) THEN << c >>
    ELSE PercentEncode(utf8CodePoint(c))

\* encodeURIComponent throws URIError on a surrogate without its other half
URIMalformed(str) == \E i \in 1 .. Len(str) : IsLoneSurrogate(str, i)

encodeURIComponent(str) ==
    ConcatRange([i \in 1 .. Len(str) |-> encodeURIChunk(str, i)], 1, Len(str))

\* "{"name":"
Json_name ==
    << 123, 34, 110, 97, 109, 101, 34, 58 >>
\* ","symbol":"
Json_symbol ==
    << 44, 34, 115, 121, 109, 98, 111, 108, 34, 58 >>
\* ","description":"
Json_description ==
    << 44, 34, 100, 101, 115, 99, 114, 105, 112, 116, 105, 111, 110, 34, 58 >>
\* ","image":"
Json_image ==
    << 44, 34, 105, 109, 97, 103, 101, 34, 58 >>
\* ","attributes":[{"trait_type":"Created With","value":"Lazorkit SDK"},{"trait_type":"Network","value":"Devnet"}]}"
Json_attributes ==
    << 44, 34, 97, 116, 116, 114, 105, 98, 117, 116, 101, 115, 34, 58, 91,
       123, 34, 116, 114, 97, 105, 116, 95, 116, 121, 112, 101, 34, 58, 34,
       67, 114, 101, 97, 116, 101, 100, 32, 87, 105, 116, 104, 34, 44, 34,
       118, 97, 108, 117, 101, 34, 58, 34, 76, 97, 122, 111, 114, 107, 105,
       116, 32, 83, 68, 75, 34, 125, 44, 123, 34, 116, 114, 97, 105, 116, 95,
       116, 121, 112, 101, 34, 58, 34, 78, 101, 116, 119, 111, 114, 107, 34,
       44, 34, 118, 97, 108, 117, 101, 34, 58, 34, 68, 101, 118, 110, 101,
       116, 34, 125, 93, 125 >>

\* JSON.stringify(metadataJson)
stringifyMetadataJson(name, symbol, description, image) ==
    Json_name \o QuoteJSONString(name) \o Json_symbol \o QuoteJSONString(symbol)
        \o Json_description \o QuoteJSONString(description)
        \o Json_image \o QuoteJSONString(image) \o Json_attributes

\* "data:application/json,"
DataUriPrefix ==
    << 100, 97, 116, 97, 58, 97, 112, 112, 108, 105, 99, 97, 116, 105, 111,
       110, 47, 106, 115, 111, 110, 44 >>

\* the placeholder metadata URI of the mint page
metadataUriOf(json) == DataUriPrefix \o encodeURIComponent(json)

VARIABLES
    calls,                 \* invocation id -> the locals of that invocation
    generated              \* the public keys Keypair.generate() has returned, in order

concVars == << calls, generated >>

\* two invocations in flight
CallIds == { 1, 2 }


\* "N"/"S"/"U" without royalty and "NFT"/"S"/"U" with a royalty of 250
ConcMetadataInputs ==
    { [name |-> <<78>>, symbol |-> <<83>>, description |-> <<>>, uri |-> <<85>>],
      [name |-> <<78, 70, 84>>, symbol |-> <<83>>, description |-> <<68>>, uri |-> <<85>>,
       sellerFeeBasisPoints |-> 250] }

IdleCall ==
    [ pc |-> "idle", payer |-> <<>>, metadata |-> <<>>, mintKeypair |-> <<>>,
      mintAddress |-> <<>>, tokenAccount |-> <<>>, metadataAddress |-> <<>>,
      masterEditionAddress |-> <<>>, mintRent |-> 0, instructions |-> <<>>,
      result |-> <<>>, thrown |-> "" ]

ConcInit ==
    /\ calls = [i \in CallIds |-> IdleCall]
    /\ generated = <<>>

\* ---------------------------------------------------------------------------
\* Numbers: IEEE 754 double precision, parseFloat and toFixed
\* ---------------------------------------------------------------------------
\* (the natural numbers of any size are defined with the byte primitives)
\* a * 2^k
BigShiftLeft(a, k) ==
    IF a = <<>> THEN <<>>
    ELSE [i \in 1 .. (k \div 15) |-> 0] \o BigMulSmall(a, Pow2(k % 15), 0)

\* a / 2^k: the whole part q, and whether a part was cut off
BigShiftSticky(res, sticky) == [q |-> res.q, sticky |-> sticky \/ res.r # 0]

BigShiftRight(a, k) ==
    IF k \div 15 >= Len(a) THEN [q |-> <<>>, sticky |-> a # <<>>]
    ELSE BigShiftSticky(BigDivSmall(SubSeq(a, k \div 15 + 1, Len(a)), Pow2(k % 15)),
                        \E i \in 1 .. (k \div 15) : a[i] # 0)

\* a / 5^n: the whole part q, and whether a part was cut off
RECURSIVE BigDivPow5(_, _, _)
BigDivPow5(a, n, sticky) ==
    IF n = 0 \/ a = <<>> THEN [q |-> a, sticky |-> sticky]
    ELSE IF n >= 6
         THEN (IF sticky THEN BigDivPow5(BigDivSmall(a, 15625).q, n - 6, TRUE)
               ELSE BigDivPow5(BigDivSmall(a, 15625).q, n - 6, BigDivSmall(a, 15625).r # 0))
    ELSE IF sticky THEN BigDivPow5(BigDivSmall(a, 5).q, n - 1, TRUE)
    ELSE BigDivPow5(BigDivSmall(a, 5).q, n - 1, BigDivSmall(a, 5).r # 0)

\* the decimal digits of a as text ("" for 0), four at a time
RECURSIVE SmallDecimal(_)
SmallDecimal(n) == IF n = 0 THEN <<>> ELSE SmallDecimal(n \div 10) \o << 48 + (n % 10) >>

FourDigits(n) ==
    << 48 + (n \div 1000), 48 + ((n \div 100) % 10), 48 + ((n \div 10) % 10),
       48 + (n % 10) >>

RECURSIVE BigDecimal(_)
BigDecimalStep(quot) ==
    IF quot.q = <<>> THEN SmallDecimal(quot.r)
    ELSE BigDecimal(quot.q) \o FourDigits(quot.r)

BigDecimal(a) == IF a = <<>> THEN <<>> ELSE BigDecimalStep(BigDivSmall(a, 10000))

\* A Number is NaN, +Infinity, -Infinity or (-1)^neg * m * 2^e with
\* 2^52 <= m < 2^53 and -1074 <= e <= 971, or with m < 2^52 and e = -1074 (the
\* subnormal numbers), or with m = 0 and e = 0 (+0 and -0).
NaN == [kind |-> "NaN", neg |-> FALSE, m |-> <<>>, e |-> 0]
Infinity(neg) == [kind |-> "Infinity", neg |-> neg, m |-> <<>>, e |-> 0]
Zero(neg) == [kind |-> "num", neg |-> neg, m |-> <<>>, e |-> 0]

isNaN(x) == x.kind = "NaN"
IsZero(x) == x.kind = "num" /\ x.m = <<>>

\* the Number of (-1)^neg * m * 2^e, which is one: Infinity beyond the largest
DoubleOf(neg, m, e) ==
    IF m = <<>> THEN Zero(neg)
    ELSE IF e + BigBitLen(m) > 1024 THEN Infinity(neg)
    ELSE [kind |-> "num", neg |-> neg, m |-> m, e |-> e]

\* the Number of (-1)^neg * m * 2^e for m < 2^54: m may have become 2^53 by
\* rounding up
DoubleOfRounded(neg, m, e) ==
    IF BigBitLen(m) = 54 THEN DoubleOf(neg, BigShiftRight(m, 1).q, e + 1)
    ELSE DoubleOf(neg, m, e)

\* round to nearest, ties to even: t is the value cut off above its last bit,
\* which is the bit below the result
RoundHalfEven(neg, t, sticky, e) ==
    DoubleOfRounded(neg,
                    IF BigIsOdd(t.q) /\ (sticky \/ t.sticky \/ BigIsOdd(BigShiftRight(t.q, 1).q))
                    THEN BigAdd(BigShiftRight(t.q, 1).q, << 1 >>)
                    ELSE BigShiftRight(t.q, 1).q,
                    e)

\* the Number nearest to (-1)^neg * (n + s) * 2^e, where 0 < s < 1 when sticky
\* and s = 0 otherwise, and r bits of n are to be dropped
RoundDrop(neg, n, e, sticky, r) ==
    IF r <= 0 THEN DoubleOf(neg, BigShiftLeft(n, -r), e + r)
    ELSE RoundHalfEven(neg, BigShiftRight(n, r - 1), sticky, e + r)

RoundToDouble(neg, n, e, sticky) ==
    IF n = <<>> THEN Zero(neg)
    ELSE RoundDrop(neg, n, e, sticky,
                   IF BigBitLen(n) - 53 >= -1074 - e THEN BigBitLen(n) - 53 ELSE -1074 - e)

\* the Number nearest to (-1)^neg * mant / 10^sc, for sc > 0: 10^sc is
\* 5^sc * 2^sc, and the quotient by 5^sc is taken with more than 55 bits
DoubleOfQuotient(neg, quot, e) == RoundToDouble(neg, quot.q, e, quot.sticky)

DoubleOfFraction(neg, mant, sc, shift) ==
    DoubleOfQuotient(neg, BigDivPow5(BigShiftLeft(mant, shift), sc, FALSE), -shift - sc)

\* the Number nearest to (-1)^neg * mant * 10^(-sc), where mant has at most
\* len decimal digits
DoubleOfDecimal(neg, mant, len, sc) ==
    IF mant = <<>> THEN Zero(neg)
    ELSE IF -sc >= 310 THEN Infinity(neg)
    ELSE IF len - sc <= -324 THEN Zero(neg)
    ELSE IF sc <= 0 THEN RoundToDouble(neg, BigMulPow10(mant, -sc), 0, FALSE)
    ELSE DoubleOfFraction(neg, mant, sc, 15 * ((7 * sc) \div 45 + 5))

\* the Number of the integer n of the model
DoubleOfInt(n) ==
    IF n < 0 THEN RoundToDouble(TRUE, BigOfInt(-n), 0, FALSE)
    ELSE RoundToDouble(FALSE, BigOfInt(n), 0, FALSE)

\* |x| < |y|, for finite x and y
MagnitudeLess(x, y) ==
    IF x.m = <<>> \/ y.m = <<>> THEN x.m = <<>> /\ y.m # <<>>
    ELSE IF x.e + BigBitLen(x.m) # y.e + BigBitLen(y.m)
         THEN x.e + BigBitLen(x.m) < y.e + BigBitLen(y.m)
    ELSE BigLess(x.m, y.m)

\* x < y
DoubleLess(x, y) ==
    IF isNaN(x) \/ isNaN(y) THEN FALSE
    ELSE IF x = y THEN FALSE
    ELSE IF IsZero(x) /\ IsZero(y) THEN FALSE
    ELSE IF x.kind = "Infinity" THEN x.neg
    ELSE IF y.kind = "Infinity" THEN ~y.neg
    ELSE IF x.neg # y.neg THEN x.neg
    ELSE IF x.neg THEN MagnitudeLess(y, x)
    ELSE MagnitudeLess(x, y)

\* x <= y
DoubleLessEq(x, y) ==
    ~isNaN(x) /\ ~isNaN(y) /\ ~DoubleLess(y, x)

\* x * y
DoubleMul(x, y) ==
    IF isNaN(x) \/ isNaN(y) THEN NaN
    ELSE IF x.kind = "Infinity" \/ y.kind = "Infinity"
         THEN (IF IsZero(x) \/ IsZero(y) THEN NaN ELSE Infinity(x.neg # y.neg))
    ELSE RoundToDouble(x.neg # y.neg, BigMul(x.m, y.m), x.e + y.e, FALSE)

\* the sum of the finite numbers (-1)^xneg * xm * 2^e and (-1)^yneg * ym * 2^e
DoubleAddAligned(xneg, xm, yneg, ym, e) ==
    IF xneg = yneg THEN RoundToDouble(xneg, BigAdd(xm, ym), e, FALSE)
    ELSE IF xm = ym THEN Zero(FALSE)
    ELSE IF BigLess(xm, ym) THEN RoundToDouble(yneg, BigSub(ym, xm), e, FALSE)
    ELSE RoundToDouble(xneg, BigSub(xm, ym), e, FALSE)

\* x + y
DoubleAdd(x, y) ==
    IF isNaN(x) \/ isNaN(y) THEN NaN
    ELSE IF x.kind = "Infinity"
         THEN (IF y.kind = "Infinity" /\ x.neg # y.neg THEN NaN ELSE x)
    ELSE IF y.kind = "Infinity" THEN y
    ELSE IF IsZero(x) /\ IsZero(y) THEN Zero(x.neg /\ y.neg)
    ELSE IF IsZero(x) THEN y
    ELSE IF IsZero(y) THEN x
    ELSE IF x.e <= y.e
         THEN DoubleAddAligned(x.neg, x.m, y.neg, BigShiftLeft(y.m, y.e - x.e), x.e)
    ELSE DoubleAddAligned(x.neg, BigShiftLeft(x.m, x.e - y.e), y.neg, y.m, y.e)

DoubleNeg(x) == IF isNaN(x) THEN NaN ELSE [x EXCEPT !.neg = ~x.neg]

\* x - y
DoubleSub(x, y) == DoubleAdd(x, DoubleNeg(y))

\* Math.max(x, y)
Math_max(x, y) ==
    IF isNaN(x) \/ isNaN(y) THEN NaN
    ELSE IF DoubleLess(x, y) THEN y
    ELSE IF DoubleLess(y, x) THEN x
    ELSE IF x.neg THEN y
    ELSE x

\* Math.floor(x), for a finite x that has a fraction: cut is |x| cut off
FloorOfCut(neg, cut) ==
    IF neg /\ cut.sticky THEN RoundToDouble(TRUE, BigAdd(cut.q, << 1 >>), 0, FALSE)
    ELSE RoundToDouble(neg, cut.q, 0, FALSE)

\* Math.floor(x)
Math_floor(x) ==
    IF x.kind # "num" \/ x.e >= 0 THEN x
    ELSE FloorOfCut(x.neg, BigShiftRight(x.m, -x.e))

\* x is a whole number (not NaN, not infinite, no fraction)
IsWholeNumber(x) ==
    /\ x.kind = "num"
    /\ x.e >= 0 \/ ~BigShiftRight(x.m, -x.e).sticky

\* the integer of the model that the Number x is, for whole numbers |x| < 2^31
IntOfDouble(x) ==
    (IF x.neg THEN -1 ELSE 1)
        * BigToInt(IF x.e >= 0 THEN BigShiftLeft(x.m, x.e) ELSE BigShiftRight(x.m, -x.e).q)

\* the value of the decimal digits digits
RECURSIVE BigOfDigits(_)
BigOfDigits(digits) ==
    IF digits = <<>> THEN <<>>
    ELSE BigMulSmall(BigOfDigits(SubSeq(digits, 1, Len(digits) - 1)), 10,
                     digits[Len(digits)] - 48)

\* Number::toString(x) with radix 10. |x| is written as the integer of the
\* decimal digits dec.digits divided by 10^dec.sc, which it is exactly. (The
\* digits are taken by recursion, which TLC evaluates for numbers between
\* about 10^-60 and 10^150 in size.)
ExactDecimal(x) ==
    IF x.e >= 0 THEN [digits |-> BigDecimal(BigShiftLeft(x.m, x.e)), sc |-> 0]
    ELSE [digits |-> BigDecimal(BigShiftRight(BigMulPow10(x.m, -x.e), -x.e).q),
          sc |-> -x.e]

\* the first k digits of digits, with zeros where digits has fewer
LeadingDigits(digits, k) ==
    IF Len(digits) >= k THEN SubSeq(digits, 1, k) ELSE digits \o Rep(48, k - Len(digits))

\* s * 10^(n - k) for the k digits s: |x| cut off after k digits, and the next
\* number of k digits above it
DecimalBelow(digits, n, k) == [s |-> LeadingDigits(digits, k), n |-> n]

DecimalOfSum(sum, n, k) ==
    IF Len(sum) > k THEN [s |-> SubSeq(sum, 1, k), n |-> n + 1] ELSE [s |-> sum, n |-> n]

DecimalAbove(digits, n, k) ==
    DecimalOfSum(BigDecimal(BigAdd(BigOfDigits(LeadingDigits(digits, k)), << 1 >>)), n, k)

\* the Number value of s * 10^(n - k) is |x|
IsNumberValue(x, d) ==
    DoubleOfDecimal(FALSE, BigOfDigits(d.s), Len(d.s), Len(d.s) - d.n)
        = [x EXCEPT !.neg = FALSE]

\* the digits after the first k are more than half a unit of the k-th digit,
\* or exactly half
AboveHalf(digits, k) ==
    /\ Len(digits) > k
    /\ \/ digits[k + 1] > 53
       \/ digits[k + 1] = 53 /\ \E i \in k + 2 .. Len(digits) : digits[i] # 48

ExactlyHalf(digits, k) ==
    /\ Len(digits) > k
    /\ digits[k + 1] = 53
    /\ \A i \in k + 2 .. Len(digits) : digits[i] = 48

\* of the two the one nearer to |x|, the even one when they are as near
NearerDecimal(digits, k, below, above) ==
    IF AboveHalf(digits, k) THEN above
    ELSE IF ExactlyHalf(digits, k) /\ below.s[k] % 2 = 1 THEN above
    ELSE below

\* the decimal of the fewest digits k whose Number value is |x|, and of those
\* the one nearest to |x|
RECURSIVE ShortestDecimal(_, _, _, _)
ShortestChoice(x, digits, n, k, below, above, belowIs, aboveIs) ==
    IF belowIs /\ aboveIs THEN NearerDecimal(digits, k, below, above)
    ELSE IF belowIs THEN below
    ELSE IF aboveIs THEN above
    ELSE ShortestDecimal(x, digits, n, k + 1)

ShortestPair(x, digits, n, k, below, above) ==
    ShortestChoice(x, digits, n, k, below, above,
                   IsNumberValue(x, below), IsNumberValue(x, above))

ShortestDecimal(x, digits, n, k) ==
    IF k >= Len(digits) THEN DecimalBelow(digits, n, k)
    ELSE ShortestPair(x, digits, n, k, DecimalBelow(digits, n, k), DecimalAbove(digits, n, k))

\* the decimal text of an integer of the model that is not negative
IntegerText(n) == IF n = 0 THEN << 48 >> ELSE BigDecimal(BigOfInt(n))

\* the text of the k digits s with the point after the n-th: plain for
\* -6 < n <= 21, with an exponent otherwise
DecimalText(s, n) ==
    IF Len(s) <= n /\ n <= 21 THEN s \o Rep(48, n - Len(s))
    ELSE IF 0 < n /\ n <= 21 THEN SubSeq(s, 1, n) \o << 46 >> \o SubSeq(s, n + 1, Len(s))
    ELSE IF -6 < n /\ n <= 0 THEN << 48, 46 >> \o Rep(48, -n) \o s
    ELSE (IF Len(s) = 1 THEN s ELSE << s[1], 46 >> \o SubSeq(s, 2, Len(s)))
             \o << 101, (IF n - 1 < 0 THEN 45 ELSE 43) >>
             \o IntegerText(IF n - 1 < 0 THEN 1 - n ELSE n - 1)

ShortestText(d) == DecimalText(d.s, d.n)

ShortestOf(x, dec) ==
    ShortestText(ShortestDecimal(x, dec.digits, Len(dec.digits) - dec.sc, 1))

\* "NaN", "0", "Infinity"
NumberToString(x) ==
    IF isNaN(x) THEN << 78, 97, 78 >>
    ELSE IF IsZero(x) THEN << 48 >>
    ELSE (IF x.neg THEN << 45 >> ELSE <<>>)
             \o (IF x.kind = "Infinity" THEN << 73, 110, 102, 105, 110, 105, 116, 121 >>
                 ELSE ShortestOf(x, ExactDecimal(x)))

\* Number.prototype.toFixed(fractionDigits) for 0 <= fractionDigits <= 100:
\* the text of Number::toString for a value that is not finite or not below
\* 10^21, and otherwise the digits of the integer n for which
\* n / 10^fractionDigits is nearest to |x| (the larger n of two), with the
\* point, if fractionDigits is not 0, before the last fractionDigits of them
RECURSIVE PadDigits(_, _)
PadDigits(digits, width) ==
    IF Len(digits) >= width THEN digits ELSE PadDigits(<< 48 >> \o digits, width)

FixedText(digits, fractionDigits) ==
    IF fractionDigits = 0 THEN digits
    ELSE SubSeq(digits, 1, Len(digits) - fractionDigits) \o << 46 >>
             \o SubSeq(digits, Len(digits) - fractionDigits + 1, Len(digits))

FixedDigits(scaled, e) ==
    BigDecimal(IF e >= 0 THEN BigShiftLeft(scaled, e)
               ELSE BigShiftRight(BigAdd(scaled, BigShiftLeft(<< 1 >>, -e - 1)), -e).q)

toFixed(x, fractionDigits) ==
    IF x.kind # "num"
           \/ ~MagnitudeLess(x, DoubleOfDecimal(FALSE, << 1 >>, 1, -21))
    THEN NumberToString(x)
    ELSE (IF x.neg /\ ~IsZero(x) THEN << 45 >> ELSE <<>>)
             \o FixedText(PadDigits(FixedDigits(BigMulPow10(x.m, fractionDigits), x.e),
                                    fractionDigits + 1),
                          fractionDigits)

IsDigit(c) == c >= 48 /\ c <= 57

\* the first position from i on that holds no white space
RECURSIVE SkipWhiteSpace(_, _)
SkipWhiteSpace(str, i) ==
    IF i <= Len(str) /\ IsWhiteSpace(str[i]) THEN SkipWhiteSpace(str, i + 1) ELSE i

\* the first position from i on that holds no digit
RECURSIVE DigitsEnd(_, _)
DigitsEnd(str, i) ==
    IF i <= Len(str) /\ IsDigit(str[i]) THEN DigitsEnd(str, i + 1) ELSE i

\* the value of the digits at positions lo .. hi - 1 of an exponent; every
\* value above 100000 counts as 100000, which is beyond every Number
RECURSIVE ExponentValue(_, _, _)
ExponentValue(str, lo, hi) ==
    IF lo >= hi THEN 0
    ELSE IF ExponentValue(str, lo, hi - 1) * 10 + (str[hi - 1] - 48) > 100000 THEN 100000
    ELSE ExponentValue(str, lo, hi - 1) * 10 + (str[hi - 1] - 48)

\* parseFloat, last step: the Number of the digits with nFrac fraction digits
\* and the exponent expo
parseFloatResult(neg, digits, nFrac, expo) ==
    DoubleOfDecimal(neg, BigOfDigits(digits), Len(digits), nFrac - expo)

\* parseFloat from position e0 on, after the digits: an optional exponent, which
\* counts only when a digit follows it
parseFloatExponent(str, neg, digits, nFrac, e0) ==
    LET hasE == e0 <= Len(str) /\ str[e0] \in { 101, 69 }
        eHasSign == hasE /\ e0 + 1 <= Len(str) /\ str[e0 + 1] \in { 43, 45 }
        eNeg == eHasSign /\ str[e0 + 1] = 45
        d1 == IF eHasSign THEN e0 + 2 ELSE e0 + 1
        expo == IF hasE
                THEN (IF eNeg THEN -1 ELSE 1) * ExponentValue(str, d1, DigitsEnd(str, d1))
                ELSE 0
    IN  parseFloatResult(neg, digits, nFrac, expo)

\* parseFloat with the integer digits at i1 .. i2 - 1 and, when f2 > i2, a dot
\* at i2 and the fraction digits at i2 + 1 .. f2 - 1; NaN when there is no digit
parseFloatMantissa(str, neg, i1, i2, f2) ==
    IF (i2 - i1) + (IF f2 > i2 THEN f2 - (i2 + 1) ELSE 0) = 0 THEN NaN
    ELSE parseFloatExponent(str, neg,
                            SubSeq(str, i1, i2 - 1) \o SubSeq(str, i2 + 1, f2 - 1),
                            IF f2 > i2 THEN f2 - (i2 + 1) ELSE 0,
                            f2)

\* parseFloat with the integer digits at i1 .. i2 - 1: an optional fraction
parseFloatFraction(str, neg, i1, i2) ==
    parseFloatMantissa(str, neg, i1, i2,
                       IF i2 <= Len(str) /\ str[i2] = 46 THEN DigitsEnd(str, i2 + 1) ELSE i2)

\* parseFloat after the sign, from position i1 on: "Infinity", or digits
parseFloatUnsigned(str, neg, i1) ==
    IF i1 + 7 <= Len(str)
           /\ SubSeq(str, i1, i1 + 7) = << 73, 110, 102, 105, 110, 105, 116, 121 >>
    THEN Infinity(neg)
    ELSE parseFloatFraction(str, neg, i1, DigitsEnd(str, i1))

\* parseFloat from the first position s0 that holds no white space: a sign
parseFloatSigned(str, s0) ==
    IF s0 <= Len(str) /\ str[s0] \in { 43, 45 }
    THEN parseFloatUnsigned(str, str[s0] = 45, s0 + 1)
    ELSE parseFloatUnsigned(str, FALSE, s0)

\* parseFloat: leading white space, a sign, "Infinity" or digits with an
\* optional fraction and an optional exponent; what follows is ignored; NaN
\* without a digit. The powers of ten are taken by recursion, which TLC
\* evaluates for decimal exponents of up to about 100 in size (and for those
\* that lead to Infinity or to 0 at once); the amounts of the pages are far
\* inside
parseFloat(str) == parseFloatSigned(str, SkipWhiteSpace(str, 1))

LAMPORTS_PER_SOL == 1000000000

\* balanceLamports / LAMPORTS_PER_SOL: the balance in SOL the pages keep; the
\* model keeps the lamports it is made from
balanceSol(lamports) ==
    IF lamports < 0 THEN DoubleOfDecimal(TRUE, BigOfInt(-lamports), 10, 9)
    ELSE DoubleOfDecimal(FALSE, BigOfInt(lamports), 10, 9)

\* amountNum <= 0
NotPositive(x) == DoubleLessEq(x, Zero(FALSE))

\* amountNum > solBalance
ExceedsBalance(x, lamports) == DoubleLess(balanceSol(lamports), x)

\* Math.floor(x * LAMPORTS_PER_SOL), for a product below 2^31 in size
lamportsOf(x) == IntOfDouble(Math_floor(DoubleMul(x, DoubleOfInt(LAMPORTS_PER_SOL))))

\* solBalance.toFixed(4)
toFixed4(lamports) == toFixed(balanceSol(lamports), 4)

\* Math.max(0, solBalance - 0.001)
maxAmountOf(lamports) ==
    Math_max(Zero(FALSE),
             DoubleSub(balanceSol(lamports), DoubleOfDecimal(FALSE, << 1 >>, 1, 3)))

\* ---------------------------------------------------------------------------
\* The mint page (app/examples/03-nft-minting/page.tsx)
\* ---------------------------------------------------------------------------
\* The pages keep no count of the balance queries nobody awaits; the model
\* counts them up to MaxFetches, and the count MaxFetches stands for that many
\* or more: a query can always be started, and when one of MaxFetches or more
\* settles, as many or one fewer are left
MaxFetches == 2

\* the count with one more query pending
MorePending(n) == IF n < MaxFetches THEN n + 1 ELSE MaxFetches

\* the counts that can be left when one of n pending queries has settled
FewerPending(n) == IF n < MaxFetches THEN { n - 1 } ELSE { MaxFetches - 1, MaxFetches }

\* The pages keep no count of the runs of handleDisconnect or handleLogout
\* that await disconnect() either: they are counted the same way, up to MaxRuns
MaxRuns == 2

MoreRunning(n) == IF n < MaxRuns THEN n + 1 ELSE MaxRuns

FewerRunning(n) == IF n < MaxRuns THEN { n - 1 } ELSE { MaxRuns - 1, MaxRuns }

\* "My Lazorkit NFT"
Default_nftName ==
    << 77, 121, 32, 76, 97, 122, 111, 114, 107, 105, 116, 32, 78, 70, 84 >>
\* "LNFT"
Default_nftSymbol ==
    << 76, 78, 70, 84 >>
\* "An NFT created using Lazorkit SDK with passkey authentication"
Default_nftDescription ==
    << 65, 110, 32, 78, 70, 84, 32, 99, 114, 101, 97, 116, 101, 100, 32, 117,
       115, 105, 110, 103, 32, 76, 97, 122, 111, 114, 107, 105, 116, 32, 83,
       68, 75, 32, 119, 105, 116, 104, 32, 112, 97, 115, 115, 107, 101, 121,
       32, 97, 117, 116, 104, 101, 110, 116, 105, 99, 97, 116, 105, 111,
       110 >>
\* "https://placehold.co/600x600/1a1a2e/ff6b6b?text=Lazorkit+NFT"
Default_nftImageUrl ==
    << 104, 116, 116, 112, 115, 58, 47, 47, 112, 108, 97, 99, 101, 104, 111,
       108, 100, 46, 99, 111, 47, 54, 48, 48, 120, 54, 48, 48, 47, 49, 97,
       49, 97, 50, 101, 47, 102, 102, 54, 98, 54, 98, 63, 116, 101, 120, 116,
       61, 76, 97, 122, 111, 114, 107, 105, 116, 43, 78, 70, 84 >>

\* what the user types: the empty name; an empty symbol and "s\u00df" (whose
\* upper case "SSS" is longer); the description D"; an empty image URL
TypedNames == { <<>> }
TypedSymbols == { <<>>, << 115, 223 >> }
TypedDescriptions == { << 68, 34 >> }
TypedImageUrls == { <<>> }

\* the connected smart wallet, the keys Keypair.generate() returns on the
\* page, and the balances the network reports: 0.01 SOL and 1 SOL, in lamports
PageRentValues == { 1461600 }
PageBalances == { 10000000, 1000000000 }
Signatures == { "sig1" }

\* "Please enter an NFT name"
Msg_EnterName ==
    << 80, 108, 101, 97, 115, 101, 32, 101, 110, 116, 101, 114, 32, 97, 110,
       32, 78, 70, 84, 32, 110, 97, 109, 101 >>
\* "Name must be 32 characters or less"
Msg_NameTooLong ==
    << 78, 97, 109, 101, 32, 109, 117, 115, 116, 32, 98, 101, 32, 51, 50, 32,
       99, 104, 97, 114, 97, 99, 116, 101, 114, 115, 32, 111, 114, 32, 108,
       101, 115, 115 >>
\* "Please enter a symbol"
Msg_EnterSymbol ==
    << 80, 108, 101, 97, 115, 101, 32, 101, 110, 116, 101, 114, 32, 97, 32,
       115, 121, 109, 98, 111, 108 >>
\* "Symbol must be 10 characters or less"
Msg_SymbolTooLong ==
    << 83, 121, 109, 98, 111, 108, 32, 109, 117, 115, 116, 32, 98, 101, 32,
       49, 48, 32, 99, 104, 97, 114, 97, 99, 116, 101, 114, 115, 32, 111,
       114, 32, 108, 101, 115, 115 >>
\* "Please enter an image URL"
Msg_EnterImageUrl ==
    << 80, 108, 101, 97, 115, 101, 32, 101, 110, 116, 101, 114, 32, 97, 110,
       32, 105, 109, 97, 103, 101, 32, 85, 82, 76 >>
\* "Need at least 0.02 SOL for account rent"
Msg_NeedRent ==
    << 78, 101, 101, 100, 32, 97, 116, 32, 108, 101, 97, 115, 116, 32, 48,
       46, 48, 50, 32, 83, 79, 76, 32, 102, 111, 114, 32, 97, 99, 99, 111,
       117, 110, 116, 32, 114, 101, 110, 116 >>
\* "Failed to mint NFT"
Msg_FailedToMint ==
    << 70, 97, 105, 108, 101, 100, 32, 116, 111, 32, 109, 105, 110, 116, 32,
       78, 70, 84 >>
\* "Insufficient SOL for account rent. Need at least 0.02 SOL."
Msg_InsufficientRent ==
    << 73, 110, 115, 117, 102, 102, 105, 99, 105, 101, 110, 116, 32, 83, 79,
       76, 32, 102, 111, 114, 32, 97, 99, 99, 111, 117, 110, 116, 32, 114,
       101, 110, 116, 46, 32, 78, 101, 101, 100, 32, 97, 116, 32, 108, 101,
       97, 115, 116, 32, 48, 46, 48, 50, 32, 83, 79, 76, 46 >>
\* "Transaction was cancelled"
Msg_Cancelled ==
    << 84, 114, 97, 110, 115, 97, 99, 116, 105, 111, 110, 32, 119, 97, 115,
       32, 99, 97, 110, 99, 101, 108, 108, 101, 100 >>
\* "NFT minting requires additional signer support. See documentation."
Msg_SignerSupport ==
    << 78, 70, 84, 32, 109, 105, 110, 116, 105, 110, 103, 32, 114, 101, 113,
       117, 105, 114, 101, 115, 32, 97, 100, 100, 105, 116, 105, 111, 110,
       97, 108, 32, 115, 105, 103, 110, 101, 114, 32, 115, 117, 112, 112,
       111, 114, 116, 46, 32, 83, 101, 101, 32, 100, 111, 99, 117, 109, 101,
       110, 116, 97, 116, 105, 111, 110, 46 >>
\* "insufficient"
Kw_insufficient ==
    << 105, 110, 115, 117, 102, 102, 105, 99, 105, 101, 110, 116 >>
\* "cancelled"
Kw_cancelled ==
    << 99, 97, 110, 99, 101, 108, 108, 101, 100 >>
\* "signature"
Kw_signature ==
    << 115, 105, 103, 110, 97, 116, 117, 114, 101 >>
\* "insufficient lamports"
Err_Insufficient ==
    << 105, 110, 115, 117, 102, 102, 105, 99, 105, 101, 110, 116, 32, 108,
       97, 109, 112, 111, 114, 116, 115 >>
\* "User cancelled"
Err_UserCancelled ==
    << 85, 115, 101, 114, 32, 99, 97, 110, 99, 101, 108, 108, 101, 100 >>
\* "Missing signature"
Err_MissingSignature ==
    << 77, 105, 115, 115, 105, 110, 103, 32, 115, 105, 103, 110, 97, 116,
       117, 114, 101 >>
\* "Network error"
Err_Network ==
    << 78, 101, 116, 119, 111, 114, 107, 32, 101, 114, 114, 111, 114 >>
\* "URI malformed"
Err_URIMalformed ==
    << 85, 82, 73, 32, 109, 97, 108, 102, 111, 114, 109, 101, 100 >>

\* the messages of the errors the SDK and the network reject with; the empty
\* sequence is an error without a message
ErrorMessages == { <<>>, Err_Insufficient, Err_UserCancelled, Err_MissingSignature, Err_Network }

VARIABLES
    mintPage               \* the state of the mint page and of its running handler

mintPageVars == << mintPage >>

\* null is the empty sequence, a value v is << v >>
MintPageInit ==
    mintPage = [ isConnected |-> FALSE, wallet |-> <<>>,
                 nftName |-> Default_nftName, nftSymbol |-> Default_nftSymbol,
                 nftDescription |-> Default_nftDescription,
                 nftImageUrl |-> Default_nftImageUrl,
                 isMinting |-> FALSE, mintedNFT |-> <<>>, error |-> <<>>,
                 solBalance |-> <<>>, loadingBalance |-> FALSE, mintKeypair |-> <<>>,
                 pc |-> "idle", payerPubkey |-> <<>>, metadata |-> <<>>,
                 nftResult |-> <<>>, request |-> <<>>, fetches |-> 0 ]

\* ---------------------------------------------------------------------------
\* The gasless transfer page (part_010) and the mobile send screen
\* (mobile/app/(tabs)/03-send-sol.tsx)
\* ---------------------------------------------------------------------------
\* the address of the connected smart wallet: the identity 10 in base58
OwnAddress ==
    << 103, 51, 53, 84, 120, 70, 113, 119, 77, 120, 57, 53, 118, 67, 107, 54,
       51, 102, 84, 120, 71, 84, 72, 98, 54, 101, 105, 52, 87, 50, 52, 113,
       103, 53, 116, 50, 120, 54, 120, 68, 51, 99, 84 >>
\* another address: the identity 11 in base58
OtherAddress ==
    << 106, 119, 86, 55, 83, 121, 118, 113, 67, 83, 114, 86, 99, 75, 105, 98,
       89, 118, 117, 114, 67, 67, 87, 114, 55, 68, 85, 109, 84, 55, 121, 82,
       89, 80, 109, 89, 57, 81, 119, 118, 114, 71, 111 >>
\* "9WzDXwBbmkg8ZTbNMqUxvQRAyrZzDsGYdLVL9zYtAWWM"
TestAddress ==
    << 57, 87, 122, 68, 88, 119, 66, 98, 109, 107, 103, 56, 90, 84, 98, 78,
       77, 113, 85, 120, 118, 81, 82, 65, 121, 114, 90, 122, 68, 115, 71, 89,
       100, 76, 86, 76, 57, 122, 89, 116, 65, 87, 87, 77 >>
\* "0.001"
TestAmount ==
    << 48, 46, 48, 48, 49 >>

\* what the user types as recipient: nothing, a blank, "abc", the own address
\* and another address
TypedRecipients == { <<>>, << 32 >>, << 97, 98, 99 >>, OwnAddress, OtherAddress }

\* what the number input of the page delivers as amount: "", "0", "0.5",
\* "1.5", "-1" and "1.001" (whose product with 10^9 is not a whole number of
\* lamports in binary)
TypedAmounts ==
    { <<>>, << 48 >>, << 48, 46, 53 >>, << 49, 46, 53 >>, << 45, 49 >>,
      << 49, 46, 48, 48, 49 >> }

\* the text input of the mobile screen also delivers "1x" and "Infinity"
TypedAmountsMobile ==
    TypedAmounts \cup { << 49, 120 >>, << 73, 110, 102, 105, 110, 105, 116, 121 >> }

\* the message of the RangeError that BigInt(x) throws in SystemProgram.transfer
\* for a Number x that is no whole number: "The number ", x, " cannot be
\* converted to a BigInt because it is not an integer"
Err_NoWholeNumber(x) ==
    << 84, 104, 101, 32, 110, 117, 109, 98, 101, 114, 32 >> \o NumberToString(x)
        \o << 32, 99, 97, 110, 110, 111, 116, 32, 98, 101, 32,
              99, 111, 110, 118, 101, 114, 116, 101, 100, 32, 116, 111, 32, 97, 32,
              66, 105, 103, 73, 110, 116, 32, 98, 101, 99, 97, 117, 115, 101, 32,
              105, 116, 32, 105, 115, 32, 110, 111, 116, 32, 97, 110, 32, 105, 110,
              116, 101, 103, 101, 114 >>

\* the RangeError of BigInt(Infinity) in SystemProgram.transfer: "The number
\* Infinity cannot be converted to a BigInt because it is not an integer"
Err_NotAnInteger ==
    << 84, 104, 101, 32, 110, 117, 109, 98, 101, 114, 32, 73, 110, 102, 105,
       110, 105, 116, 121, 32, 99, 97, 110, 110, 111, 116, 32, 98, 101, 32,
       99, 111, 110, 118, 101, 114, 116, 101, 100, 32, 116, 111, 32, 97, 32,
       66, 105, 103, 73, 110, 116, 32, 98, 101, 99, 97, 117, 115, 101, 32,
       105, 116, 32, 105, 115, 32, 110, 111, 116, 32, 97, 110, 32, 105, 110,
       116, 101, 103, 101, 114 >>

\* "Please enter a recipient address"
Msg_EnterRecipient ==
    << 80, 108, 101, 97, 115, 101, 32, 101, 110, 116, 101, 114, 32, 97, 32,
       114, 101, 99, 105, 112, 105, 101, 110, 116, 32, 97, 100, 100, 114,
       101, 115, 115 >>
\* "Invalid Solana address format"
Msg_InvalidAddress ==
    << 73, 110, 118, 97, 108, 105, 100, 32, 83, 111, 108, 97, 110, 97, 32,
       97, 100, 100, 114, 101, 115, 115, 32, 102, 111, 114, 109, 97, 116 >>
\* "Please enter a valid amount"
Msg_EnterAmount ==
    << 80, 108, 101, 97, 115, 101, 32, 101, 110, 116, 101, 114, 32, 97, 32,
       118, 97, 108, 105, 100, 32, 97, 109, 111, 117, 110, 116 >>
\* "Insufficient balance. You have "
Msg_InsufficientPrefix ==
    << 73, 110, 115, 117, 102, 102, 105, 99, 105, 101, 110, 116, 32, 98, 97,
       108, 97, 110, 99, 101, 46, 32, 89, 111, 117, 32, 104, 97, 118, 101,
       32 >>
\* " SOL"
Msg_InsufficientSuffix ==
    << 32, 83, 79, 76 >>
\* "Cannot send to yourself"
Msg_SendToSelf ==
    << 67, 97, 110, 110, 111, 116, 32, 115, 101, 110, 100, 32, 116, 111, 32,
       121, 111, 117, 114, 115, 101, 108, 102 >>
\* "Transaction failed"
Msg_TransactionFailed ==
    << 84, 114, 97, 110, 115, 97, 99, 116, 105, 111, 110, 32, 102, 97, 105,
       108, 101, 100 >>
\* "Insufficient SOL balance for this transfer"
Msg_InsufficientTransfer ==
    << 73, 110, 115, 117, 102, 102, 105, 99, 105, 101, 110, 116, 32, 83, 79,
       76, 32, 98, 97, 108, 97, 110, 99, 101, 32, 102, 111, 114, 32, 116,
       104, 105, 115, 32, 116, 114, 97, 110, 115, 102, 101, 114 >>
\* "Transaction expired. Please try again."
Msg_Expired ==
    << 84, 114, 97, 110, 115, 97, 99, 116, 105, 111, 110, 32, 101, 120, 112,
       105, 114, 101, 100, 46, 32, 80, 108, 101, 97, 115, 101, 32, 116, 114,
       121, 32, 97, 103, 97, 105, 110, 46 >>
\* "canceled"
Kw_canceled ==
    << 99, 97, 110, 99, 101, 108, 101, 100 >>
\* "blockhash"
Kw_blockhash ==
    << 98, 108, 111, 99, 107, 104, 97, 115, 104 >>
\* "blockhash not found"
Err_Blockhash ==
    << 98, 108, 111, 99, 107, 104, 97, 115, 104, 32, 110, 111, 116, 32, 102,
       111, 117, 110, 100 >>
\* "Request canceled"
Err_Canceled ==
    << 82, 101, 113, 117, 101, 115, 116, 32, 99, 97, 110, 99, 101, 108, 101,
       100 >>

\* the messages the SDK rejects a transfer with
TransferErrorMessages == ErrorMessages \cup { Err_Blockhash, Err_Canceled }

VARIABLES
    app,                   \* the application that runs: "none", "web" or "mobile"
    transferPage,          \* the state of the gasless transfer page and of its handler
    sendScreen             \* the state of the mobile send screen and of its handler

transferVars == << app, transferPage, sendScreen >>

TransferPageInit ==
    transferPage = [ isConnected |-> FALSE, wallet |-> <<>>,
                     recipient |-> <<>>, amount |-> <<>>,
                     isTransferring |-> FALSE, txSignature |-> <<>>, error |-> <<>>,
                     solBalance |-> <<>>, loadingBalance |-> FALSE,
                     pc |-> "idle", request |-> <<>>, fetches |-> 0 ]

\* "Validation Error"
Title_ValidationError ==
    << 86, 97, 108, 105, 100, 97, 116, 105, 111, 110, 32, 69, 114, 114, 111,
       114 >>
\* "Error"
Title_Error ==
    << 69, 114, 114, 111, 114 >>
\* "Success! \U0001f389"
Title_Success ==
    << 83, 117, 99, 99, 101, 115, 115, 33, 32, 55356, 57225 >>
\* "Transfer Failed"
Title_TransferFailed ==
    << 84, 114, 97, 110, 115, 102, 101, 114, 32, 70, 97, 105, 108, 101, 100 >>
\* "Wallet not connected"
Msg_WalletNotConnected ==
    << 87, 97, 108, 108, 101, 116, 32, 110, 111, 116, 32, 99, 111, 110, 110,
       101, 99, 116, 101, 100 >>
\* "Your SOL has been sent successfully!"
Msg_Sent ==
    << 89, 111, 117, 114, 32, 83, 79, 76, 32, 104, 97, 115, 32, 98, 101, 101,
       110, 32, 115, 101, 110, 116, 32, 115, 117, 99, 99, 101, 115, 115, 102,
       117, 108, 108, 121, 33 >>
\* "Insufficient SOL balance"
Msg_InsufficientSol ==
    << 73, 110, 115, 117, 102, 102, 105, 99, 105, 101, 110, 116, 32, 83, 79,
       76, 32, 98, 97, 108, 97, 110, 99, 101 >>
\* "Transaction simulation failed"
Msg_SimulationFailed ==
    << 84, 114, 97, 110, 115, 97, 99, 116, 105, 111, 110, 32, 115, 105, 109,
       117, 108, 97, 116, 105, 111, 110, 32, 102, 97, 105, 108, 101, 100 >>
\* "insufficient funds"
Kw_insufficientFunds ==
    << 105, 110, 115, 117, 102, 102, 105, 99, 105, 101, 110, 116, 32, 102,
       117, 110, 100, 115 >>
\* "0x1"
Kw_0x1 ==
    << 48, 120, 49 >>
\* "simulation failed"
Kw_simulationFailed ==
    << 115, 105, 109, 117, 108, 97, 116, 105, 111, 110, 32, 102, 97, 105,
       108, 101, 100 >>
\* "insufficient funds for transfer"
Err_InsufficientFunds ==
    << 105, 110, 115, 117, 102, 102, 105, 99, 105, 101, 110, 116, 32, 102,
       117, 110, 100, 115, 32, 102, 111, 114, 32, 116, 114, 97, 110, 115,
       102, 101, 114 >>
\* "simulation failed"
Err_Simulation ==
    << 115, 105, 109, 117, 108, 97, 116, 105, 111, 110, 32, 102, 97, 105,
       108, 101, 100 >>
\* "lazorkit-examples://callback"
REDIRECT_URLS_transaction ==
    << 108, 97, 122, 111, 114, 107, 105, 116, 45, 101, 120, 97, 109, 112,
       108, 101, 115, 58, 47, 47, 99, 97, 108, 108, 98, 97, 99, 107 >>

\* the messages the SDK rejects a transfer of the mobile app with
MobileErrorMessages == TransferErrorMessages \cup { Err_InsufficientFunds, Err_Simulation }

\* "Unknown error occurred"
Msg_UnknownErrorOccurred ==
    << 85, 110, 107, 110, 111, 119, 110, 32, 101, 114, 114, 111, 114, 32,
       111, 99, 99, 117, 114, 114, 101, 100 >>

\* what signAndSendTransaction of the mobile app rejects with (error: any): an
\* Error object with a message (the empty sequence: without one), a string, or
\* null
ErrorObject(message) == [type |-> "Error", text |-> message]
MobileRejections ==
    { ErrorObject(message) : message \in MobileErrorMessages }
        \cup { [type |-> "string", text |-> Err_UserCancelled],
               [type |-> "null", text |-> <<>>] }

SendScreenInit ==
    sendScreen = [ isConnected |-> FALSE, walletAddress |-> <<>>,
                   recipient |-> <<>>, amount |-> <<>>,
                   isSending |-> FALSE, txSignature |-> <<>>,
                   balance |-> <<>>, isLoadingBalance |-> FALSE, alert |-> <<>>,
                   pc |-> "idle", request |-> <<>>, fetches |-> 0,
                   lastQuery |-> "none" ]

\* ---------------------------------------------------------------------------
\* processInstructionsForLazorKit: state of one use
\* ---------------------------------------------------------------------------
\* the longest instruction list handed to processInstructionsForLazorKit
MaxInstructions == 3

\* ComputeBudgetProgram.programId: "ComputeBudget111111111111111111111111111111"
COMPUTE_BUDGET_PROGRAM_ID ==
    bs58decode(
        << 67, 111, 109, 112, 117, 116, 101, 66, 117, 100, 103, 101, 116, 49,
           49, 49, 49, 49, 49, 49, 49, 49, 49, 49, 49, 49, 49, 49, 49, 49,
           49, 49, 49, 49, 49, 49, 49, 49, 49, 49, 49, 49, 49 >>)

VARIABLES
    proc                   \* one use of processInstructionsForLazorKit: its arguments,
                           \* its result, and the result of applying it to that result

procVars == << proc >>

ProcInit ==
    proc = [ pc |-> "idle", instructions |-> <<>>, smartWalletAddress |-> <<>>,
             output |-> <<>>, again |-> <<>> ]

\* ---------------------------------------------------------------------------
\* The useBalances hook: state
\* ---------------------------------------------------------------------------
\* the addresses the wallet session hands to the hook, the amounts of USDC
\* token accounts (in units of 10^-6 USDC)
HookAddresses == { OwnAddress, OtherAddress }
UsdcAmounts == { 2500000 }

VARIABLES
    balances               \* the hook: its argument, its three states, the number
                           \* of calls of fetchBalances that await getBalance and
                           \* that await getAccount (counted as the pending
                           \* queries of the pages are), and the last event

balancesVars == << balances >>

BalancesInit ==
    balances = [ smartWalletAddress |-> <<>>,
                 solBalance |-> <<>>, usdcBalance |-> <<>>, loading |-> FALSE,
                 awaitBalance |-> 0, awaitAccount |-> 0,
                 event |-> "init" ]

\* ---------------------------------------------------------------------------
\* The smart wallet page and the home page: state
\* ---------------------------------------------------------------------------
\* "Failed to connect wallet"
Msg_FailedToConnect ==
    << 70, 97, 105, 108, 101, 100, 32, 116, 111, 32, 99, 111, 110, 110, 101,
       99, 116, 32, 119, 97, 108, 108, 101, 116 >>
\* "Please enter recipient and amount."
Msg_EnterRecipientAndAmount ==
    << 80, 108, 101, 97, 115, 101, 32, 101, 110, 116, 101, 114, 32, 114, 101,
       99, 105, 112, 105, 101, 110, 116, 32, 97, 110, 100, 32, 97, 109, 111,
       117, 110, 116, 46 >>
\* "Processing transfer..."
Msg_Processing ==
    << 80, 114, 111, 99, 101, 115, 115, 105, 110, 103, 32, 116, 114, 97, 110,
       115, 102, 101, 114, 46, 46, 46 >>
\* "Transfer successful! Signature: "
Msg_TransferSuccessfulPrefix ==
    << 84, 114, 97, 110, 115, 102, 101, 114, 32, 115, 117, 99, 99, 101, 115,
       115, 102, 117, 108, 33, 32, 83, 105, 103, 110, 97, 116, 117, 114, 101,
       58, 32 >>
\* "..."
Msg_Ellipsis ==
    << 46, 46, 46 >>
\* "Transfer failed: "
Msg_TransferFailedPrefix ==
    << 84, 114, 97, 110, 115, 102, 101, 114, 32, 102, 97, 105, 108, 101, 100,
       58, 32 >>
\* "Unknown error"
Msg_UnknownError ==
    << 85, 110, 107, 110, 111, 119, 110, 32, 101, 114, 114, 111, 114 >>
\* "Invalid public key input"
Err_InvalidPublicKey ==
    << 73, 110, 118, 97, 108, 105, 100, 32, 112, 117, 98, 108, 105, 99, 32,
       107, 101, 121, 32, 105, 110, 112, 117, 116 >>
\* a transaction signature: "5VERv8NMvzbJMEkV8xnrLkEaWRtSz9CosKDYjCJjBRnb"
SignatureText ==
    << 53, 86, 69, 82, 118, 56, 78, 77, 118, 122, 98, 74, 77, 69, 107, 86,
       56, 120, 110, 114, 76, 107, 69, 97, 87, 82, 116, 83, 122, 57, 67, 111,
       115, 75, 68, 89, 106, 67, 74, 106, 66, 82, 110, 98 >>

\* what is typed on the home page: nothing, a text that is no address, an
\* address; nothing, "0.5" and "0.0000000015", which is one lamport and a half
HomeRecipients == { <<>>, << 97, 98, 99 >>, OtherAddress }
HomeAmounts == { <<>>, << 48, 46, 53 >>, << 48, 46, 48, 48, 48, 48, 48, 48, 48, 48, 49, 53 >> }

VARIABLES
    walletPage,            \* the smart wallet page, the wallet session it uses and its
                           \* running handlers (disconnects: the runs of
                           \* handleDisconnect that await disconnect())
    home                   \* the home page, its wallet session and its running handlers
                           \* (logouts: the runs of handleLogout that await
                           \* disconnect())

walletPageVars == << walletPage >>
homeVars == << home >>

\* the wallet session is Disconnected, Connecting, Connected or Disconnecting;
\* isConnected and wallet of useWallet() are read from it
WalletPageInit ==
    walletPage = [ session |-> "Disconnected", wallet |-> <<>>,
                   isConnecting |-> FALSE, error |-> <<>>,
                   solBalance |-> <<>>, loadingBalance |-> FALSE,
                   fetches |-> 0, disconnects |-> 0 ]

HomeInit ==
    home = [ session |-> "Disconnected", wallet |-> <<>>,
             balance |-> <<>>, recipient |-> <<>>, amount |-> <<>>,
             status |-> <<>>, isLoading |-> FALSE,
             pc |-> "idle", request |-> <<>>, fetches |-> 0, logouts |-> 0 ]

otherThanBuilder == << concVars, mintPageVars, transferVars, procVars, balancesVars, walletPageVars, homeVars >>
otherThanConc == << builderVars, mintPageVars, transferVars, procVars, balancesVars, walletPageVars, homeVars >>
otherThanMintPage == << builderVars, concVars, transferVars, procVars, balancesVars, walletPageVars, homeVars >>
otherThanTransfer == << builderVars, concVars, mintPageVars, procVars, balancesVars, walletPageVars, homeVars >>
otherThanProc == << builderVars, concVars, mintPageVars, transferVars, balancesVars, walletPageVars, homeVars >>
otherThanBalances == << builderVars, concVars, mintPageVars, transferVars, procVars, walletPageVars, homeVars >>
otherThanWalletPage ==
    << builderVars, concVars, mintPageVars, transferVars, procVars, balancesVars, homeVars >>
otherThanHome == << builderVars, concVars, mintPageVars, transferVars, procVars, balancesVars, walletPageVars >>

vars ==
    << builderVars, concVars, mintPageVars, transferVars, procVars,
       balancesVars, walletPageVars, homeVars >>

\* one page is mounted in a run: the pages that have left their initial state;
\* a page opens only while the others are closed
OpenPages ==
    (IF MintPageInit THEN {} ELSE { "mint" })
        \cup (IF app = "none" THEN {} ELSE { "transfer" })
        \cup (IF BalancesInit THEN {} ELSE { "balances" })
        \cup (IF WalletPageInit THEN {} ELSE { "wallet" })
        \cup (IF HomeInit THEN {} ELSE { "home" })

Init ==
    /\ pc = "idle"
    /\ payer = <<>>
    /\ metadata = <<>>
    /\ mintKeypair = <<>>
    /\ mintAddress = <<>>
    /\ tokenAccount = <<>>
    /\ metadataAddress = <<>>
    /\ masterEditionAddress = <<>>
    /\ mintRent = 0
    /\ instructions = <<>>
    /\ result = <<>>
    /\ thrown = ""
    /\ rentQueries = 0
    /\ rentFailure = ""
    /\ ConcInit
    /\ MintPageInit
    /\ app = "none"
    /\ TransferPageInit
    /\ SendScreenInit
    /\ ProcInit
    /\ BalancesInit
    /\ WalletPageInit
    /\ HomeInit

\* createNFTInstructions is called: Keypair.generate(), then the await of
\* getAssociatedTokenAddress
Call ==
    /\ pc = "idle"
    /\ \E p \in Payers, md \in MetadataInputs, k \in MintKeys :
          /\ payer' = p
          /\ metadata' = md
          /\ mintKeypair' = << [publicKey |-> k] >>
          /\ mintAddress' = k
    /\ pc' = "awaitTokenAccount"
    /\ UNCHANGED << tokenAccount, metadataAddress, masterEditionAddress, mintRent,
                    instructions, result, thrown, rentQueries, rentFailure >>
    /\ UNCHANGED otherThanBuilder

\* the token-account address resolves; both PDAs are derived and the rent
\* query is issued
TokenAccountResolved ==
    /\ pc = "awaitTokenAccount"
    /\ tokenAccount' = getAssociatedTokenAddress(mintAddress, payer)
    /\ metadataAddress' = getMetadataAddress(mintAddress)
    /\ masterEditionAddress' = getMasterEditionAddress(mintAddress)
    /\ rentQueries' = rentQueries + 1
    /\ pc' = "awaitRent"
    /\ UNCHANGED << payer, metadata, mintKeypair, mintAddress, mintRent,
                    instructions, result, thrown, rentFailure >>
    /\ UNCHANGED otherThanBuilder

\* variant: the plan reports the two derived addresses in each other's place
RentResolved_AddressesSwapped ==
    /\ pc = "awaitRent"
    /\ \E r \in RentValues :
          /\ mintRent' = r
          /\ instructions' = assembleInstructions(payer, mintAddress, tokenAccount,
                                 metadataAddress, masterEditionAddress, r, metadata)
    /\ result' = << [instructions |-> instructions',
                     mintKeypair |-> mintKeypair[1],
                     mintAddress |-> mintAddress,
                     tokenAccount |-> tokenAccount,
                     metadataAddress |-> masterEditionAddress,
                     masterEditionAddress |-> metadataAddress] >>
    /\ pc' = "returned"
    /\ UNCHANGED << payer, metadata, mintKeypair, mintAddress, tokenAccount,
                    metadataAddress, masterEditionAddress, thrown, rentQueries,
                    rentFailure >>
    /\ UNCHANGED otherThanBuilder

\* the rent query resolves: the six instructions are pushed and the plan is
\* returned
RentResolved ==
    /\ pc = "awaitRent"
    /\ \E r \in RentValues :
          /\ mintRent' = r
          /\ instructions' = assembleInstructions(payer, mintAddress, tokenAccount,
                                 metadataAddress, masterEditionAddress, r, metadata)
    /\ result' = << [instructions |-> instructions',
                     mintKeypair |-> mintKeypair[1],
                     mintAddress |-> mintAddress,
                     tokenAccount |-> tokenAccount,
                     metadataAddress |-> metadataAddress,
                     masterEditionAddress |-> masterEditionAddress] >>
    /\ pc' = "returned"
    /\ UNCHANGED << payer, metadata, mintKeypair, mintAddress, tokenAccount,
                    metadataAddress, masterEditionAddress, thrown, rentQueries,
                    rentFailure >>
    /\ UNCHANGED otherThanBuilder

\* variant: a rejected rent query is issued again
RentRejected_Retry ==
    /\ pc = "awaitRent"
    /\ rentQueries < 3
    /\ \E e \in RentErrors : rentFailure' = e
    /\ rentQueries' = rentQueries + 1
    /\ UNCHANGED << pc, payer, metadata, mintKeypair, mintAddress, tokenAccount,
                    metadataAddress, masterEditionAddress, mintRent, instructions,
                    result, thrown >>
    /\ UNCHANGED otherThanBuilder

\* the rent query rejects: there is no try/catch, the rejection leaves the
\* function as it is
RentRejected ==
    /\ pc = "awaitRent"
    /\ \E e \in RentErrors :
          /\ rentFailure' = e
          /\ thrown' = e
    /\ pc' = "rejected"
    /\ UNCHANGED << payer, metadata, mintKeypair, mintAddress, tokenAccount,
                    metadataAddress, masterEditionAddress, mintRent, instructions,
                    result, rentQueries >>
    /\ UNCHANGED otherThanBuilder

Next ==
    \/ Call
    \/ TokenAccountResolved
    \/ RentResolved
    \/ RentRejected

Spec == Init /\ [][Next]_vars

\* ---------------------------------------------------------------------------
\* Several invocations side by side: each step of an invocation is one action,
\* the steps of different invocations interleave at the awaits
\* ---------------------------------------------------------------------------
\* Keypair.generate(): the key pair of 32 random bytes; any key, also one
\* that was returned before
Keypair_generate == ConcMintKeys

\* variant: the key pair is generated by the first invocation and kept for
\* the invocations after it
ConcCall_KeptKeypair(i) ==
    /\ calls[i].pc = "idle"
    /\ \E p \in Payers, md \in ConcMetadataInputs,
          k \in (IF generated = <<>> THEN Keypair_generate ELSE { generated[1] }) :
          /\ calls' = [calls EXCEPT ![i] =
                          [@ EXCEPT !.pc = "awaitTokenAccount",
                                    !.payer = p,
                                    !.metadata = md,
                                    !.mintKeypair = << [publicKey |-> k] >>,
                                    !.mintAddress = k]]
          /\ generated' = IF generated = <<>> THEN << k >> ELSE generated
    /\ UNCHANGED otherThanConc

\* createNFTInstructions is called: Keypair.generate(), then the await of
\* getAssociatedTokenAddress
ConcCall(i) ==
    /\ calls[i].pc = "idle"
    /\ \E p \in Payers, md \in ConcMetadataInputs, k \in Keypair_generate :
          /\ calls' = [calls EXCEPT ![i] =
                          [@ EXCEPT !.pc = "awaitTokenAccount",
                                    !.payer = p,
                                    !.metadata = md,
                                    !.mintKeypair = << [publicKey |-> k] >>,
                                    !.mintAddress = k]]
          /\ generated' = Append(generated, k)
    /\ UNCHANGED otherThanConc

\* variant: the mint is kept in a variable of the module, so the addresses
\* are derived from the key generated last
ConcTokenAccountResolved_SharedMint(i) ==
    /\ calls[i].pc = "awaitTokenAccount"
    /\ LET shared == generated[Len(generated)] IN
       calls' = [calls EXCEPT ![i] =
                    [@ EXCEPT !.pc = "awaitRent",
                              !.mintAddress = shared,
                              !.tokenAccount = getAssociatedTokenAddress(shared, calls[i].payer),
                              !.metadataAddress = getMetadataAddress(shared),
                              !.masterEditionAddress = getMasterEditionAddress(shared)]]
    /\ UNCHANGED generated
    /\ UNCHANGED otherThanConc

ConcTokenAccountResolved(i) ==
    /\ calls[i].pc = "awaitTokenAccount"
    /\ calls' = [calls EXCEPT ![i] =
                    [@ EXCEPT !.pc = "awaitRent",
                              !.tokenAccount =
                                  getAssociatedTokenAddress(calls[i].mintAddress, calls[i].payer),
                              !.metadataAddress = getMetadataAddress(calls[i].mintAddress),
                              !.masterEditionAddress =
                                  getMasterEditionAddress(calls[i].mintAddress)]]
    /\ UNCHANGED generated
    /\ UNCHANGED otherThanConc

ConcRentResolved(i) ==
    /\ calls[i].pc = "awaitRent"
    /\ \E r \in RentValues :
          LET c == calls[i]
              ixs == assembleInstructions(c.payer, c.mintAddress, c.tokenAccount,
                         c.metadataAddress, c.masterEditionAddress, r, c.metadata)
          IN  calls' = [calls EXCEPT ![i] =
                           [@ EXCEPT !.pc = "returned",
                                     !.mintRent = r,
                                     !.instructions = ixs,
                                     !.result =
                                         << [instructions |-> ixs,
                                             mintKeypair |-> c.mintKeypair[1],
                                             mintAddress |-> c.mintAddress,
                                             tokenAccount |-> c.tokenAccount,
                                             metadataAddress |-> c.metadataAddress,
                                             masterEditionAddress |-> c.masterEditionAddress] >>]]
    /\ UNCHANGED generated
    /\ UNCHANGED otherThanConc

ConcRentRejected(i) ==
    /\ calls[i].pc = "awaitRent"
    /\ \E e \in RentErrors :
          calls' = [calls EXCEPT ![i] = [@ EXCEPT !.pc = "rejected", !.thrown = e]]
    /\ UNCHANGED generated
    /\ UNCHANGED otherThanConc

ConcNext ==
    \E i \in CallIds :
        \/ ConcCall(i)
        \/ ConcTokenAccountResolved(i)
        \/ ConcRentResolved(i)
        \/ ConcRentRejected(i)

SpecConcurrent == Init /\ [][ConcNext]_vars

\* ---------------------------------------------------------------------------
\* The mint page: validation, handleMintNFT and the balance refresh
\* ---------------------------------------------------------------------------
\* the plan createNFTInstructions resolves with for the key k it generated and
\* the rent r the network reported
createNFTInstructionsPlan(payerKey, k, r, md) ==
    [ instructions |-> assembleInstructions(payerKey, k, getAssociatedTokenAddress(k, payerKey),
                           getMetadataAddress(k), getMasterEditionAddress(k), r, md),
      mintKeypair |-> [publicKey |-> k],
      mintAddress |-> k,
      tokenAccount |-> getAssociatedTokenAddress(k, payerKey),
      metadataAddress |-> getMetadataAddress(k),
      masterEditionAddress |-> getMasterEditionAddress(k) ]

\* validateInputs of the mint page: null (the empty sequence) or << message >>;
\* solBalance is kept in lamports and compared as the Number it is in SOL
mintValidateInputs(mp) ==
    IF TrimIsEmpty(mp.nftName) THEN << Msg_EnterName >>
    ELSE IF Len(mp.nftName) > 32 THEN << Msg_NameTooLong >>
    ELSE IF TrimIsEmpty(mp.nftSymbol) THEN << Msg_EnterSymbol >>
    ELSE IF Len(mp.nftSymbol) > 10 THEN << Msg_SymbolTooLong >>
    ELSE IF TrimIsEmpty(mp.nftImageUrl) THEN << Msg_EnterImageUrl >>
    ELSE IF mp.solBalance # <<>>
            /\ DoubleLess(balanceSol(mp.solBalance[1]), DoubleOfDecimal(FALSE, << 2 >>, 1, 2))
         THEN << Msg_NeedRent >>
    ELSE <<>>

\* the message the catch block of handleMintNFT shows for an error
mintErrorMessage(message) ==
    LET errorMessage == IF message = <<>> THEN Msg_FailedToMint ELSE message IN
    IF includes(errorMessage, Kw_insufficient) THEN Msg_InsufficientRent
    ELSE IF includes(errorMessage, Kw_cancelled) THEN Msg_Cancelled
    ELSE IF includes(errorMessage, Kw_signature) THEN Msg_SignerSupport
    ELSE errorMessage

\* the argument handleMintNFT passes to signAndSendTransaction
mintRequest(nftResult) ==
    [ instructions |-> nftResult.instructions,
      transactionOptions |-> [feeToken |-> "SOL", computeUnitLimit |-> 400000] ]

\* the wallet hook reports a connected wallet; the effect fetches the balance
MintPageConnected ==
    /\ OpenPages \subseteq { "mint" }
    /\ ~mintPage.isConnected
    /\ \E w \in PageWallets :
          mintPage' = [mintPage EXCEPT !.isConnected = TRUE, !.wallet = << w >>,
                                       !.loadingBalance = TRUE, !.fetches = MorePending(@)]
    /\ UNCHANGED otherThanMintPage

\* handleDisconnect of the wallet status component: the wallet hook reports
\* no wallet; the page keeps the rest of its state and its pending calls go on
MintPageDisconnected ==
    /\ mintPage.isConnected
    /\ mintPage' = [mintPage EXCEPT !.isConnected = FALSE, !.wallet = <<>>]
    /\ UNCHANGED otherThanMintPage

\* the onChange handlers of the four inputs
MintSetNftName ==
    /\ mintPage.isConnected
    /\ \E v \in TypedNames \cup { Default_nftName } :
          mintPage' = [mintPage EXCEPT !.nftName = v, !.error = <<>>]
    /\ UNCHANGED otherThanMintPage

MintSetNftSymbol ==
    /\ mintPage.isConnected
    /\ \E v \in TypedSymbols :
          mintPage' = [mintPage EXCEPT !.nftSymbol = toUpperCase(v), !.error = <<>>]
    /\ UNCHANGED otherThanMintPage

MintSetNftDescription ==
    /\ mintPage.isConnected
    /\ \E v \in TypedDescriptions \cup { Default_nftDescription } :
          mintPage' = [mintPage EXCEPT !.nftDescription = v, !.error = <<>>]
    /\ UNCHANGED otherThanMintPage

MintSetNftImageUrl ==
    /\ mintPage.isConnected
    /\ \E v \in TypedImageUrls \cup { Default_nftImageUrl } :
          mintPage' = [mintPage EXCEPT !.nftImageUrl = v, !.error = <<>>]
    /\ UNCHANGED otherThanMintPage

\* the refresh button (disabled while loadingBalance) calls fetchBalance
MintRefreshClicked ==
    /\ mintPage.isConnected
    /\ ~mintPage.loadingBalance
    /\ mintPage' = [mintPage EXCEPT !.loadingBalance = TRUE, !.fetches = MorePending(@)]
    /\ UNCHANGED otherThanMintPage

\* getBalance of a fetchBalance nobody awaits resolves
MintBalanceResolved ==
    /\ mintPage.fetches > 0
    /\ \E b \in PageBalances, n \in FewerPending(mintPage.fetches) :
          mintPage' = [mintPage EXCEPT !.solBalance = << b >>, !.loadingBalance = FALSE,
                                       !.fetches = n]
    /\ UNCHANGED otherThanMintPage

\* ... or rejects: the error is logged, the balance stays
MintBalanceRejected ==
    /\ mintPage.fetches > 0
    /\ \E n \in FewerPending(mintPage.fetches) :
          mintPage' = [mintPage EXCEPT !.loadingBalance = FALSE, !.fetches = n]
    /\ UNCHANGED otherThanMintPage

\* the Mint button (disabled while isMinting): handleMintNFT up to its first
\* await
MintClicked ==
    /\ mintPage.isConnected
    /\ ~mintPage.isMinting
    /\ LET validationError == mintValidateInputs(mintPage)
           json == stringifyMetadataJson(mintPage.nftName, mintPage.nftSymbol,
                       mintPage.nftDescription, mintPage.nftImageUrl)
       IN  IF validationError # <<>>
           THEN mintPage' = [mintPage EXCEPT !.error = validationError]
           ELSE IF URIMalformed(json)
           THEN mintPage' = [mintPage EXCEPT
                                !.error = << mintErrorMessage(Err_URIMalformed) >>,
                                !.mintedNFT = <<>>,
                                !.isMinting = FALSE]
           ELSE mintPage' = [mintPage EXCEPT
                                !.error = <<>>,
                                !.mintedNFT = <<>>,
                                !.isMinting = TRUE,
                                !.pc = "awaitBuild",
                                !.payerPubkey = << mintPage.wallet[1] >>,
                                !.metadata =
                                    << [name |-> mintPage.nftName,
                                        symbol |-> mintPage.nftSymbol,
                                        description |-> mintPage.nftDescription,
                                        uri |-> metadataUriOf(json),
                                        sellerFeeBasisPoints |-> 0] >>]
    /\ UNCHANGED otherThanMintPage

\* createNFTInstructions resolves: the keypair is stored and
\* signAndSendTransaction is called
MintBuildResolved ==
    /\ mintPage.pc = "awaitBuild"
    /\ \E k \in PageMintKeys, r \in PageRentValues :
          LET nftResult == createNFTInstructionsPlan(mintPage.payerPubkey[1], k, r,
                               mintPage.metadata[1])
          IN  mintPage' = [mintPage EXCEPT !.mintKeypair = << nftResult.mintKeypair >>,
                                           !.nftResult = << nftResult >>,
                                           !.request = << mintRequest(nftResult) >>,
                                           !.pc = "awaitSend"]
    /\ UNCHANGED otherThanMintPage

\* createNFTInstructions rejects: catch and finally
MintBuildRejected ==
    /\ mintPage.pc = "awaitBuild"
    /\ \E message \in ErrorMessages :
          mintPage' = [mintPage EXCEPT !.error = << mintErrorMessage(message) >>,
                                       !.isMinting = FALSE,
                                       !.pc = "idle",
                                       !.payerPubkey = <<>>,
                                       !.metadata = <<>>]
    /\ UNCHANGED otherThanMintPage

\* signAndSendTransaction resolves with a signature: the minted NFT is stored
\* and fetchBalance is awaited
MintSendResolved ==
    /\ mintPage.pc = "awaitSend"
    /\ \E signature \in Signatures :
          mintPage' = [mintPage EXCEPT
                          !.mintedNFT =
                              << [signature |-> signature,
                                  mintAddress |-> [base58 |-> mintPage.nftResult[1].mintAddress],
                                  tokenAccount |-> [base58 |-> mintPage.nftResult[1].tokenAccount]] >>,
                          !.request = <<>>,
                          !.loadingBalance = TRUE,
                          !.pc = "awaitBalance"]
    /\ UNCHANGED otherThanMintPage

\* signAndSendTransaction rejects: catch and finally
MintSendRejected ==
    /\ mintPage.pc = "awaitSend"
    /\ \E message \in ErrorMessages :
          mintPage' = [mintPage EXCEPT !.error = << mintErrorMessage(message) >>,
                                       !.isMinting = FALSE,
                                       !.request = <<>>,
                                       !.pc = "idle",
                                       !.payerPubkey = <<>>,
                                       !.metadata = <<>>,
                                       !.nftResult = <<>>]
    /\ UNCHANGED otherThanMintPage

\* the awaited fetchBalance finishes, with a balance or with a logged error;
\* finally lowers isMinting
MintRefreshed ==
    /\ mintPage.pc = "awaitBalance"
    /\ \E b \in PageBalances \cup { -1 } :
          mintPage' = [mintPage EXCEPT
                          !.solBalance = IF b = -1 THEN @ ELSE << b >>,
                          !.loadingBalance = FALSE,
                          !.isMinting = FALSE,
                          !.pc = "idle",
                          !.payerPubkey = <<>>,
                          !.metadata = <<>>,
                          !.nftResult = <<>>]
    /\ UNCHANGED otherThanMintPage

MintPageNext ==
    \/ MintPageConnected
    \/ MintPageDisconnected
    \/ MintSetNftName
    \/ MintSetNftSymbol
    \/ MintSetNftDescription
    \/ MintSetNftImageUrl
    \/ MintRefreshClicked
    \/ MintBalanceResolved
    \/ MintBalanceRejected
    \/ MintClicked
    \/ MintBuildResolved
    \/ MintBuildRejected
    \/ MintSendResolved
    \/ MintSendRejected
    \/ MintRefreshed

SpecMintPage == Init /\ [][MintPageNext]_vars

\* ---------------------------------------------------------------------------
\* The gasless transfer page: validation, handleTransfer, balance refresh
\* ---------------------------------------------------------------------------
\* SystemProgram.transfer; the keys are the 32 bytes of the addresses
SystemProgram_transfer(fromPubkey, toPubkey, lamports) ==
    TransactionInstruction(
        << AccountMeta(fromPubkey, TRUE, TRUE),
           AccountMeta(toPubkey, FALSE, TRUE) >>,
        SYSTEM_PROGRAM_ID,
        BufferConcat(<< writeUIntLE(2, 4), writeUIntLE(lamports, 8) >>))

\* variant: sending to the own wallet is not refused
transferValidateInputs_NoSelfCheck(tp) ==
    IF TrimIsEmpty(tp.recipient) THEN << Msg_EnterRecipient >>
    ELSE IF ~isValidPublicKey(tp.recipient) THEN << Msg_InvalidAddress >>
    ELSE LET amountNum == parseFloat(tp.amount) IN
         IF isNaN(amountNum) \/ NotPositive(amountNum) THEN << Msg_EnterAmount >>
         ELSE IF tp.solBalance # <<>> /\ ExceedsBalance(amountNum, tp.solBalance[1])
              THEN << Msg_InsufficientPrefix \o toFixed4(tp.solBalance[1])
                         \o Msg_InsufficientSuffix >>
         ELSE <<>>

\* validateInputs of the transfer page: null (the empty sequence) or
\* << message >>; solBalance is kept in lamports
transferValidateInputs(tp) ==
    IF TrimIsEmpty(tp.recipient) THEN << Msg_EnterRecipient >>
    ELSE IF ~isValidPublicKey(tp.recipient) THEN << Msg_InvalidAddress >>
    ELSE LET amountNum == parseFloat(tp.amount) IN
         IF isNaN(amountNum) \/ NotPositive(amountNum) THEN << Msg_EnterAmount >>
         ELSE IF tp.solBalance # <<>> /\ ExceedsBalance(amountNum, tp.solBalance[1])
              THEN << Msg_InsufficientPrefix \o toFixed4(tp.solBalance[1])
                         \o Msg_InsufficientSuffix >>
         ELSE IF tp.wallet # <<>> /\ tp.recipient = tp.wallet[1] THEN << Msg_SendToSelf >>
         ELSE <<>>

\* the message the catch block of handleTransfer shows for an error
transferErrorMessage(message) ==
    LET errorMessage == IF message = <<>> THEN Msg_TransactionFailed ELSE message IN
    IF includes(errorMessage, Kw_insufficient) THEN Msg_InsufficientTransfer
    ELSE IF includes(errorMessage, Kw_cancelled) \/ includes(errorMessage, Kw_canceled)
         THEN Msg_Cancelled
    ELSE IF includes(errorMessage, Kw_blockhash) THEN Msg_Expired
    ELSE errorMessage

\* the argument handleTransfer passes to signAndSendTransaction
transferRequest(transferInstruction) ==
    [ instructions |-> << transferInstruction >>,
      transactionOptions |-> [feeToken |-> "USDC"] ]

\* the wallet hook reports a connected wallet; the effect fetches the balance
TransferPageConnected ==
    /\ OpenPages \subseteq { "transfer" }
    /\ app \in { "none", "web" }
    /\ ~transferPage.isConnected
    /\ app' = "web"
    /\ transferPage' = [transferPage EXCEPT !.isConnected = TRUE, !.wallet = << OwnAddress >>,
                                            !.loadingBalance = TRUE, !.fetches = MorePending(@)]
    /\ UNCHANGED sendScreen
    /\ UNCHANGED otherThanTransfer

\* handleDisconnect of the wallet status component: the wallet hook reports
\* no wallet; the page keeps the rest of its state and its pending calls go on
TransferPageDisconnected ==
    /\ transferPage.isConnected
    /\ transferPage' = [transferPage EXCEPT !.isConnected = FALSE, !.wallet = <<>>]
    /\ UNCHANGED << app, sendScreen >>
    /\ UNCHANGED otherThanTransfer

\* the onChange handlers of the two inputs
TransferSetRecipient ==
    /\ transferPage.isConnected
    /\ \E v \in TypedRecipients :
          transferPage' = [transferPage EXCEPT !.recipient = v, !.error = <<>>]
    /\ UNCHANGED << app, sendScreen >>
    /\ UNCHANGED otherThanTransfer

TransferSetAmount ==
    /\ transferPage.isConnected
    /\ \E v \in TypedAmounts :
          transferPage' = [transferPage EXCEPT !.amount = v, !.error = <<>>]
    /\ UNCHANGED << app, sendScreen >>
    /\ UNCHANGED otherThanTransfer

\* handleSetMax: the balance less 0.001 SOL, when a balance is known
TransferSetMax ==
    /\ transferPage.isConnected
    /\ transferPage' =
           IF transferPage.solBalance # <<>>
           THEN [transferPage EXCEPT
                    !.amount = toFixed(maxAmountOf(transferPage.solBalance[1]), 4)]
           ELSE transferPage
    /\ UNCHANGED << app, sendScreen >>
    /\ UNCHANGED otherThanTransfer

\* handleTestRecipient
TransferTestRecipient ==
    /\ transferPage.isConnected
    /\ transferPage' = [transferPage EXCEPT !.recipient = TestAddress, !.amount = TestAmount]
    /\ UNCHANGED << app, sendScreen >>
    /\ UNCHANGED otherThanTransfer

\* the refresh button (disabled while loadingBalance) calls fetchBalance
TransferRefreshClicked ==
    /\ transferPage.isConnected
    /\ ~transferPage.loadingBalance
    /\ transferPage' = [transferPage EXCEPT !.loadingBalance = TRUE, !.fetches = MorePending(@)]
    /\ UNCHANGED << app, sendScreen >>
    /\ UNCHANGED otherThanTransfer

\* getBalance of a fetchBalance nobody awaits resolves
TransferBalanceResolved ==
    /\ transferPage.fetches > 0
    /\ \E b \in PageBalances, n \in FewerPending(transferPage.fetches) :
          transferPage' = [transferPage EXCEPT !.solBalance = << b >>,
                                               !.loadingBalance = FALSE,
                                               !.fetches = n]
    /\ UNCHANGED << app, sendScreen >>
    /\ UNCHANGED otherThanTransfer

\* ... or rejects: the error is logged, the balance stays
TransferBalanceRejected ==
    /\ transferPage.fetches > 0
    /\ \E n \in FewerPending(transferPage.fetches) :
          transferPage' = [transferPage EXCEPT !.loadingBalance = FALSE, !.fetches = n]
    /\ UNCHANGED << app, sendScreen >>
    /\ UNCHANGED otherThanTransfer

\* variant: the Send button is not disabled while isTransferring
TransferClicked_NotDisabled ==
    /\ transferPage.isConnected
    /\ transferPage.recipient # <<>>
    /\ transferPage.amount # <<>>
    /\ LET validationError == transferValidateInputs(transferPage)
           amountNum == parseFloat(transferPage.amount)
           transferInstruction ==
               SystemProgram_transfer(bs58decode(transferPage.wallet[1]),
                                      bs58decode(transferPage.recipient),
                                      lamportsOf(amountNum))
       IN  IF validationError # <<>>
           THEN transferPage' = [transferPage EXCEPT !.error = validationError]
           ELSE IF amountNum.kind = "Infinity"
           THEN transferPage' = [transferPage EXCEPT
                                    !.error = << transferErrorMessage(Err_NotAnInteger) >>,
                                    !.txSignature = <<>>,
                                    !.isTransferring = FALSE]
           ELSE transferPage' = [transferPage EXCEPT
                                    !.error = <<>>,
                                    !.txSignature = <<>>,
                                    !.isTransferring = TRUE,
                                    !.request = << transferRequest(transferInstruction) >>,
                                    !.pc = "awaitSend"]
    /\ UNCHANGED << app, sendScreen >>
    /\ UNCHANGED otherThanTransfer

\* the Send button (disabled while isTransferring or with an empty field):
\* handleTransfer up to its await; Infinity lamports make SystemProgram.transfer
\* throw inside the try, so that catch and finally run at once
TransferClicked ==
    /\ transferPage.isConnected
    /\ ~transferPage.isTransferring
    /\ transferPage.recipient # <<>>
    /\ transferPage.amount # <<>>
    /\ LET validationError == transferValidateInputs(transferPage)
           amountNum == parseFloat(transferPage.amount)
           transferInstruction ==
               SystemProgram_transfer(bs58decode(transferPage.wallet[1]),
                                      bs58decode(transferPage.recipient),
                                      lamportsOf(amountNum))
       IN  IF validationError # <<>>
           THEN transferPage' = [transferPage EXCEPT !.error = validationError]
           ELSE IF amountNum.kind = "Infinity"
           THEN transferPage' = [transferPage EXCEPT
                                    !.error = << transferErrorMessage(Err_NotAnInteger) >>,
                                    !.txSignature = <<>>,
                                    !.isTransferring = FALSE]
           ELSE transferPage' = [transferPage EXCEPT
                                    !.error = <<>>,
                                    !.txSignature = <<>>,
                                    !.isTransferring = TRUE,
                                    !.request = << transferRequest(transferInstruction) >>,
                                    !.pc = "awaitSend"]
    /\ UNCHANGED << app, sendScreen >>
    /\ UNCHANGED otherThanTransfer

\* signAndSendTransaction resolves: the signature is stored, the form is
\* cleared and fetchBalance is awaited
TransferSendResolved ==
    /\ transferPage.pc = "awaitSend"
    /\ \E signature \in Signatures :
          transferPage' = [transferPage EXCEPT !.txSignature = << signature >>,
                                               !.recipient = <<>>,
                                               !.amount = <<>>,
                                               !.request = <<>>,
                                               !.loadingBalance = TRUE,
                                               !.pc = "awaitBalance"]
    /\ UNCHANGED << app, sendScreen >>
    /\ UNCHANGED otherThanTransfer

\* variant: the catch block also clears the form
TransferSendRejected_ClearsForm ==
    /\ transferPage.pc = "awaitSend"
    /\ \E message \in TransferErrorMessages :
          transferPage' = [transferPage EXCEPT
                              !.error = << transferErrorMessage(message) >>,
                              !.recipient = <<>>,
                              !.amount = <<>>,
                              !.isTransferring = FALSE,
                              !.request = <<>>,
                              !.pc = "idle"]
    /\ UNCHANGED << app, sendScreen >>
    /\ UNCHANGED otherThanTransfer

\* signAndSendTransaction rejects: catch and finally
TransferSendRejected ==
    /\ transferPage.pc = "awaitSend"
    /\ \E message \in TransferErrorMessages :
          transferPage' = [transferPage EXCEPT
                              !.error = << transferErrorMessage(message) >>,
                              !.isTransferring = FALSE,
                              !.request = <<>>,
                              !.pc = "idle"]
    /\ UNCHANGED << app, sendScreen >>
    /\ UNCHANGED otherThanTransfer

\* the awaited fetchBalance finishes, with a balance or with a logged error;
\* finally lowers isTransferring
TransferRefreshed ==
    /\ transferPage.pc = "awaitBalance"
    /\ \E b \in PageBalances \cup { -1 } :
          transferPage' = [transferPage EXCEPT
                              !.solBalance = IF b = -1 THEN @ ELSE << b >>,
                              !.loadingBalance = FALSE,
                              !.isTransferring = FALSE,
                              !.pc = "idle"]
    /\ UNCHANGED << app, sendScreen >>
    /\ UNCHANGED otherThanTransfer

TransferPageNext ==
    \/ TransferPageConnected
    \/ TransferPageDisconnected
    \/ TransferSetRecipient
    \/ TransferSetAmount
    \/ TransferSetMax
    \/ TransferTestRecipient
    \/ TransferRefreshClicked
    \/ TransferBalanceResolved
    \/ TransferBalanceRejected
    \/ TransferClicked
    \/ TransferSendResolved
    \/ TransferSendRejected
    \/ TransferRefreshed

\* ---------------------------------------------------------------------------
\* The mobile send screen: validation, handleSend, balance refresh
\* ---------------------------------------------------------------------------
\* what connection.getBalance does for the send screen: it resolves with the
\* lamports of the account or it rejects
BalanceQueries ==
    { [ok |-> TRUE, lamports |-> b] : b \in PageBalances } \cup { [ok |-> FALSE, lamports |-> 0] }

\* getSolBalance: the balance, or 0 when the query failed (the error is caught
\* and logged); balances are kept in lamports
getSolBalance(query) == IF query.ok THEN query.lamports ELSE 0

\* validateInputs of the send screen
sendValidateInputs(ss) ==
    IF TrimIsEmpty(ss.recipient) THEN << Msg_EnterRecipient >>
    ELSE IF ~isValidPublicKey(ss.recipient) THEN << Msg_InvalidAddress >>
    ELSE IF ss.walletAddress # <<>> /\ ss.recipient = ss.walletAddress[1]
         THEN << Msg_SendToSelf >>
    ELSE LET amountNum == parseFloat(ss.amount) IN
         IF isNaN(amountNum) \/ NotPositive(amountNum) THEN << Msg_EnterAmount >>
         ELSE IF ss.balance # <<>> /\ ExceedsBalance(amountNum, ss.balance[1])
              THEN << Msg_InsufficientPrefix \o toFixed4(ss.balance[1])
                         \o Msg_InsufficientSuffix >>
         ELSE <<>>

\* formatTransactionError: a falsy error (null, the empty string) has no
\* text, a string is returned as it is, the message of an object is mapped
\* to a friendly text, and an object without a message is a failed transaction
formatTransactionError(error) ==
    IF error.type = "null" \/ (error.type = "string" /\ error.text = <<>>)
    THEN Msg_UnknownErrorOccurred
    ELSE IF error.type = "string" THEN error.text
    ELSE IF error.text = <<>> THEN Msg_TransactionFailed
    ELSE IF includes(error.text, Kw_insufficientFunds) \/ includes(error.text, Kw_0x1)
         THEN Msg_InsufficientSol
    ELSE IF includes(error.text, Kw_blockhash) THEN Msg_Expired
    ELSE IF includes(error.text, Kw_cancelled) \/ includes(error.text, Kw_canceled)
         THEN Msg_Cancelled
    ELSE IF includes(error.text, Kw_simulationFailed) THEN Msg_SimulationFailed
    ELSE error.text

\* the two arguments handleSend passes to signAndSendTransaction
sendRequest(instruction) ==
    [ instructions |-> << instruction >>,
      transactionOptions |-> [feeToken |-> "SOL", clusterSimulation |-> "devnet"],
      redirectUrl |-> REDIRECT_URLS_transaction ]

Alert(title, message) == << [title |-> title, message |-> message] >>

\* the wallet hook reports a connected wallet; the effect fetches the balance
SendScreenConnected ==
    /\ OpenPages \subseteq { "transfer" }
    /\ app \in { "none", "mobile" }
    /\ ~sendScreen.isConnected
    /\ app' = "mobile"
    /\ sendScreen' = [sendScreen EXCEPT !.isConnected = TRUE,
                                        !.walletAddress = << OwnAddress >>,
                                        !.isLoadingBalance = TRUE, !.fetches = MorePending(@)]
    /\ UNCHANGED transferPage
    /\ UNCHANGED otherThanTransfer

\* handleDisconnect of the Connect tab, confirmed: when disconnect() has
\* settled the wallet hook reports no wallet, whatever the screen shows by
\* then; the screen keeps the rest of its state and its pending calls go on
SendScreenDisconnected ==
    /\ sendScreen.isConnected
    /\ sendScreen' = [sendScreen EXCEPT !.isConnected = FALSE, !.walletAddress = <<>>]
    /\ UNCHANGED << app, transferPage >>
    /\ UNCHANGED otherThanTransfer

\* an alert is modal: the screen takes no input until it is dismissed
SendAlertDismissed ==
    /\ sendScreen.alert # <<>>
    /\ sendScreen' = [sendScreen EXCEPT !.alert = <<>>]
    /\ UNCHANGED << app, transferPage >>
    /\ UNCHANGED otherThanTransfer

SendSetRecipient ==
    /\ sendScreen.isConnected
    /\ sendScreen.alert = <<>>
    /\ \E v \in TypedRecipients : sendScreen' = [sendScreen EXCEPT !.recipient = v]
    /\ UNCHANGED << app, transferPage >>
    /\ UNCHANGED otherThanTransfer

SendSetAmount ==
    /\ sendScreen.isConnected
    /\ sendScreen.alert = <<>>
    /\ \E v \in TypedAmountsMobile : sendScreen' = [sendScreen EXCEPT !.amount = v]
    /\ UNCHANGED << app, transferPage >>
    /\ UNCHANGED otherThanTransfer

\* handleSetMax
SendSetMax ==
    /\ sendScreen.isConnected
    /\ sendScreen.alert = <<>>
    /\ sendScreen' =
           IF sendScreen.balance # <<>>
           THEN [sendScreen EXCEPT !.amount = toFixed(maxAmountOf(sendScreen.balance[1]), 4)]
           ELSE sendScreen
    /\ UNCHANGED << app, transferPage >>
    /\ UNCHANGED otherThanTransfer

\* handleUseTestAddress
SendUseTestAddress ==
    /\ sendScreen.isConnected
    /\ sendScreen.alert = <<>>
    /\ sendScreen' = [sendScreen EXCEPT !.recipient = TestAddress, !.amount = TestAmount]
    /\ UNCHANGED << app, transferPage >>
    /\ UNCHANGED otherThanTransfer

\* the refresh button (disabled while isLoadingBalance) calls fetchBalance
SendRefreshClicked ==
    /\ sendScreen.isConnected
    /\ sendScreen.alert = <<>>
    /\ ~sendScreen.isLoadingBalance
    /\ sendScreen' = [sendScreen EXCEPT !.isLoadingBalance = TRUE, !.fetches = MorePending(@)]
    /\ UNCHANGED << app, transferPage >>
    /\ UNCHANGED otherThanTransfer

\* getSolBalance of a fetchBalance nobody awaits resolves with the balance
SendBalanceResolved ==
    /\ sendScreen.fetches > 0
    /\ \E b \in PageBalances, n \in FewerPending(sendScreen.fetches) :
          sendScreen' = [sendScreen EXCEPT
                            !.balance = << getSolBalance([ok |-> TRUE, lamports |-> b]) >>,
                            !.isLoadingBalance = FALSE,
                            !.fetches = n,
                            !.lastQuery = "ok"]
    /\ UNCHANGED << app, transferPage >>
    /\ UNCHANGED otherThanTransfer

\* ... or the network query fails: getSolBalance catches and resolves with 0
SendBalanceFailed ==
    /\ sendScreen.fetches > 0
    /\ \E n \in FewerPending(sendScreen.fetches) :
          sendScreen' = [sendScreen EXCEPT
                               !.balance = << getSolBalance([ok |-> FALSE, lamports |-> 0]) >>,
                               !.isLoadingBalance = FALSE,
                               !.fetches = n,
                               !.lastQuery = "failed"]
    /\ UNCHANGED << app, transferPage >>
    /\ UNCHANGED otherThanTransfer

\* the Send button (disabled while isSending or with an empty field):
\* handleSend up to its await; Infinity lamports make SystemProgram.transfer
\* throw inside the try, so that catch and finally run at once
SendClicked ==
    /\ sendScreen.isConnected
    /\ sendScreen.alert = <<>>
    /\ ~sendScreen.isSending
    /\ sendScreen.recipient # <<>>
    /\ sendScreen.amount # <<>>
    /\ LET validationError == sendValidateInputs(sendScreen)
           amountNum == parseFloat(sendScreen.amount)
           instruction ==
               SystemProgram_transfer(bs58decode(sendScreen.walletAddress[1]),
                                      bs58decode(sendScreen.recipient),
                                      lamportsOf(amountNum))
       IN  IF validationError # <<>>
           THEN sendScreen' = [sendScreen EXCEPT
                                  !.alert = Alert(Title_ValidationError, validationError[1])]
           ELSE IF sendScreen.walletAddress = <<>>
           THEN sendScreen' = [sendScreen EXCEPT
                                  !.alert = Alert(Title_Error, Msg_WalletNotConnected)]
           ELSE IF amountNum.kind = "Infinity"
           THEN sendScreen' = [sendScreen EXCEPT
                                  !.alert = Alert(Title_TransferFailed,
                                      formatTransactionError(ErrorObject(Err_NotAnInteger))),
                                  !.txSignature = <<>>,
                                  !.isSending = FALSE]
           ELSE sendScreen' = [sendScreen EXCEPT
                                  !.isSending = TRUE,
                                  !.txSignature = <<>>,
                                  !.request = << sendRequest(instruction) >>,
                                  !.pc = "awaitSend"]
    /\ UNCHANGED << app, transferPage >>
    /\ UNCHANGED otherThanTransfer

\* signAndSendTransaction resolves: the signature is stored, the form is
\* cleared and fetchBalance is awaited
SendResolved ==
    /\ sendScreen.pc = "awaitSend"
    /\ \E signature \in Signatures :
          sendScreen' = [sendScreen EXCEPT !.txSignature = << signature >>,
                                           !.recipient = <<>>,
                                           !.amount = <<>>,
                                           !.request = <<>>,
                                           !.isLoadingBalance = TRUE,
                                           !.pc = "awaitBalance"]
    /\ UNCHANGED << app, transferPage >>
    /\ UNCHANGED otherThanTransfer

\* signAndSendTransaction rejects: catch and finally
SendRejected ==
    /\ sendScreen.pc = "awaitSend"
    /\ \E error \in MobileRejections :
          sendScreen' = [sendScreen EXCEPT
                            !.alert = Alert(Title_TransferFailed, formatTransactionError(error)),
                            !.isSending = FALSE,
                            !.request = <<>>,
                            !.pc = "idle"]
    /\ UNCHANGED << app, transferPage >>
    /\ UNCHANGED otherThanTransfer

\* the awaited fetchBalance finishes, after a query that resolved or failed,
\* the success alert is shown; finally lowers isSending
SendRefreshed ==
    /\ sendScreen.pc = "awaitBalance"
    /\ \E query \in BalanceQueries :
          sendScreen' = [sendScreen EXCEPT !.balance = << getSolBalance(query) >>,
                                           !.lastQuery = IF query.ok THEN "ok" ELSE "failed",
                                           !.isLoadingBalance = FALSE,
                                           !.alert = Alert(Title_Success, Msg_Sent),
                                           !.isSending = FALSE,
                                           !.pc = "idle"]
    /\ UNCHANGED << app, transferPage >>
    /\ UNCHANGED otherThanTransfer

SendScreenNext ==
    \/ SendScreenConnected
    \/ SendScreenDisconnected
    \/ SendAlertDismissed
    \/ SendSetRecipient
    \/ SendSetAmount
    \/ SendSetMax
    \/ SendUseTestAddress
    \/ SendRefreshClicked
    \/ SendBalanceResolved
    \/ SendBalanceFailed
    \/ SendClicked
    \/ SendResolved
    \/ SendRejected
    \/ SendRefreshed

\* a behaviour follows one of the two applications
TransferNext == TransferPageNext \/ SendScreenNext

SpecTransfer == Init /\ [][TransferNext]_vars

\* ---------------------------------------------------------------------------
\* processInstructionsForLazorKit (lib/utils)
\* ---------------------------------------------------------------------------
\* ComputeBudgetProgram.setComputeUnitLimit({ units })
ComputeBudget_setComputeUnitLimit(units) ==
    TransactionInstruction(<<>>, COMPUTE_BUDGET_PROGRAM_ID,
                           BufferConcat(<< <<2>>, writeUIntLE(units, 4) >>))

\* the instructions a caller hands over: a transfer from the own wallet, a
\* transfer between two other accounts, a transfer to the own wallet, a
\* compute-unit limit, and a compute-budget instruction that lists the own
\* wallet
ProcInstructions ==
    { SystemProgram_transfer(bs58decode(OwnAddress), bs58decode(OtherAddress), 1000),
      SystemProgram_transfer(bs58decode(OtherAddress), bs58decode(TestAddress), 5),
      SystemProgram_transfer(bs58decode(TestAddress), bs58decode(OwnAddress), 7),
      ComputeBudget_setComputeUnitLimit(400000),
      TransactionInstruction(<< AccountMeta(bs58decode(OwnAddress), TRUE, FALSE) >>,
                             COMPUTE_BUDGET_PROGRAM_ID, << 3, 1, 0, 0, 0, 0, 0, 0, 0 >>) }

\* the lists of at most MaxInstructions of them
ProcInstructionLists ==
    UNION { [1 .. n -> ProcInstructions] : n \in 0 .. MaxInstructions }

\* the addresses given: two wallets and the text "abc", which is no address
ProcAddresses == { OwnAddress, OtherAddress, << 97, 98, 99 >> }

\* ix.keys.some(key => key.pubkey.equals(smartWallet))
hasSmartWallet(ix, smartWallet) ==
    \E n \in 1 .. Len(ix.keys) : ix.keys[n].pubkey = smartWallet

\* the instruction the map callback returns for ix
withSmartWallet(ix, smartWallet) ==
    IF ~hasSmartWallet(ix, smartWallet)
    THEN TransactionInstruction(ix.keys \o << AccountMeta(smartWallet, FALSE, FALSE) >>,
                                ix.programId, ix.data)
    ELSE ix

\* variant: compute-budget instrs are not removed
processInstructionsForLazorKit_NoFilter(instrs, smartWalletAddress) ==
    LET smartWallet == bs58decode(smartWalletAddress)
    IN  [n \in 1 .. Len(instrs) |-> withSmartWallet(instrs[n], smartWallet)]

\* variant: the smart wallet is appended without looking for it first
processInstructionsForLazorKit_AlwaysAppend(instrs, smartWalletAddress) ==
    LET smartWallet == bs58decode(smartWalletAddress)
        notComputeBudget(ix) == ix.programId # COMPUTE_BUDGET_PROGRAM_ID
        kept == SelectSeq(instrs, notComputeBudget)
    IN  [n \in 1 .. Len(kept) |->
            TransactionInstruction(kept[n].keys \o << AccountMeta(smartWallet, FALSE, FALSE) >>,
                                   kept[n].programId, kept[n].data)]

\* processInstructionsForLazorKit for an address new PublicKey accepts: filter,
\* then map
processInstructionsForLazorKit(instrs, smartWalletAddress) ==
    LET smartWallet == bs58decode(smartWalletAddress)
        notComputeBudget(ix) == ix.programId # COMPUTE_BUDGET_PROGRAM_ID
        kept == SelectSeq(instrs, notComputeBudget)
    IN  [n \in 1 .. Len(kept) |-> withSmartWallet(kept[n], smartWallet)]

\* a caller applies the function: new PublicKey throws for a text that is no
\* address, otherwise the processed list is returned
ProcessCall ==
    /\ proc.pc = "idle"
    /\ \E instrs \in ProcInstructionLists, address \in ProcAddresses :
          proc' = IF ~isValidPublicKey(address)
                  THEN [proc EXCEPT !.pc = "thrown",
                                    !.instructions = instrs,
                                    !.smartWalletAddress = address]
                  ELSE [proc EXCEPT !.pc = "returned",
                                    !.instructions = instrs,
                                    !.smartWalletAddress = address,
                                    !.output = processInstructionsForLazorKit(instrs,
                                                                              address)]
    /\ UNCHANGED otherThanProc

\* the caller applies the function to its result, with the same wallet
ProcessAgain ==
    /\ proc.pc = "returned"
    /\ proc' = [proc EXCEPT !.pc = "reapplied",
                            !.again = processInstructionsForLazorKit(proc.output,
                                                                     proc.smartWalletAddress)]
    /\ UNCHANGED otherThanProc

ProcNext ==
    \/ ProcessCall
    \/ ProcessAgain

SpecProcess == Init /\ [][ProcNext]_vars

\* ---------------------------------------------------------------------------
\* The useBalances hook (hooks/useBalances)
\* ---------------------------------------------------------------------------
\* fetchBalances up to its first await, for the hook state b whose argument is
\* address: without an address both balances are reset and nothing else
\* happens; with one, loading is raised and getBalance is awaited, whatever
\* earlier calls still await
fetchBalances(b, address) ==
    IF address = <<>>
    THEN [b EXCEPT !.smartWalletAddress = address,
                   !.solBalance = <<>>,
                   !.usdcBalance = <<>>,
                   !.event = "callNull"]
    ELSE [b EXCEPT !.smartWalletAddress = address,
                   !.loading = TRUE,
                   !.awaitBalance = MorePending(@),
                   !.event = "callAddress"]

\* the wallet session hands the hook another address (or none): fetchBalances
\* is a new callback and the effect calls it
BalancesWalletChanged ==
    /\ OpenPages \subseteq { "balances" }
    /\ \E address \in { <<>> } \cup { << a >> : a \in HookAddresses } :
          /\ address # balances.smartWalletAddress
          /\ balances' = fetchBalances(balances, address)
    /\ UNCHANGED otherThanBalances

\* the first call of the effect after mounting, a tick of the 10 s interval,
\* or a call of the returned fetchBalances
BalancesRefresh ==
    /\ OpenPages \subseteq { "balances" }
    /\ balances' = fetchBalances(balances, balances.smartWalletAddress)
    /\ UNCHANGED otherThanBalances

\* connection.getBalance of an awaiting call resolves: the SOL balance is
\* stored (in lamports) and getAccount is awaited
BalancesSolResolved ==
    /\ balances.awaitBalance > 0
    /\ \E balanceLamports \in PageBalances, n \in FewerPending(balances.awaitBalance) :
          balances' = [balances EXCEPT !.solBalance = << balanceLamports >>,
                                       !.awaitBalance = n,
                                       !.awaitAccount = MorePending(@),
                                       !.event = "solResolved"]
    /\ UNCHANGED otherThanBalances

\* connection.getBalance rejects: the outer catch logs, finally lowers loading
BalancesSolRejected ==
    /\ balances.awaitBalance > 0
    /\ \E n \in FewerPending(balances.awaitBalance) :
          balances' = [balances EXCEPT !.loading = FALSE,
                                       !.awaitBalance = n,
                                       !.event = "solRejected"]
    /\ UNCHANGED otherThanBalances

\* getAccount resolves with the token account: its amount is stored
BalancesAccountResolved ==
    /\ balances.awaitAccount > 0
    /\ \E amount \in UsdcAmounts, n \in FewerPending(balances.awaitAccount) :
          balances' = [balances EXCEPT !.usdcBalance = << amount >>,
                                       !.loading = FALSE,
                                       !.awaitAccount = n,
                                       !.event = "accountResolved"]
    /\ UNCHANGED otherThanBalances

\* variant: a missing token account is handled by the outer catch
BalancesAccountMissing_OuterCatch ==
    /\ balances.awaitAccount > 0
    /\ \E n \in FewerPending(balances.awaitAccount) :
          balances' = [balances EXCEPT !.loading = FALSE,
                                       !.awaitAccount = n,
                                       !.event = "accountMissing"]
    /\ UNCHANGED otherThanBalances

\* getAccount rejects (no token account): the inner catch stores 0
BalancesAccountMissing ==
    /\ balances.awaitAccount > 0
    /\ \E n \in FewerPending(balances.awaitAccount) :
          balances' = [balances EXCEPT !.usdcBalance = << 0 >>,
                                       !.loading = FALSE,
                                       !.awaitAccount = n,
                                       !.event = "accountMissing"]
    /\ UNCHANGED otherThanBalances

BalancesNext ==
    \/ BalancesWalletChanged
    \/ BalancesRefresh
    \/ BalancesSolResolved
    \/ BalancesSolRejected
    \/ BalancesAccountResolved
    \/ BalancesAccountMissing

SpecBalances == Init /\ [][BalancesNext]_vars

\* ---------------------------------------------------------------------------
\* The smart wallet page: handleConnect, handleDisconnect, fetchBalance
\* ---------------------------------------------------------------------------
\* isConnected of useWallet(): the session holds a wallet
walletIsConnected(wp) == wp.session \in { "Connected", "Disconnecting" }

\* the Connect button (shown while not connected, disabled while
\* isConnecting): handleConnect up to its await
WalletConnectClicked ==
    /\ OpenPages \subseteq { "wallet" }
    /\ walletPage.session = "Disconnected"
    /\ ~walletPage.isConnecting
    /\ walletPage' = [walletPage EXCEPT !.error = <<>>,
                                         !.isConnecting = TRUE,
                                         !.session = "Connecting"]
    /\ UNCHANGED otherThanWalletPage

\* connect() resolves: finally lowers isConnecting; the effect on
\* isConnected and wallet.smartWallet calls fetchBalance
WalletConnectResolved ==
    /\ walletPage.session = "Connecting"
    /\ \E address \in HookAddresses :
          walletPage' = [walletPage EXCEPT !.session = "Connected",
                                           !.wallet = << address >>,
                                           !.isConnecting = FALSE,
                                           !.loadingBalance = TRUE,
                                           !.fetches = MorePending(@)]
    /\ UNCHANGED otherThanWalletPage

\* variant: the finally block is missing
WalletConnectRejected_NoFinally ==
    /\ walletPage.session = "Connecting"
    /\ \E message \in ErrorMessages :
          walletPage' = [walletPage EXCEPT
                            !.session = "Disconnected",
                            !.error = << IF message # <<>> THEN message
                                         ELSE Msg_FailedToConnect >>]
    /\ UNCHANGED otherThanWalletPage

\* connect() rejects: catch stores the message, finally lowers isConnecting
WalletConnectRejected ==
    /\ walletPage.session = "Connecting"
    /\ \E message \in ErrorMessages :
          walletPage' = [walletPage EXCEPT
                            !.session = "Disconnected",
                            !.error = << IF message # <<>> THEN message
                                         ELSE Msg_FailedToConnect >>,
                            !.isConnecting = FALSE]
    /\ UNCHANGED otherThanWalletPage

\* the Disconnect button (shown while isConnected, never disabled):
\* handleDisconnect up to its await, also while earlier runs still await
WalletDisconnectClicked ==
    /\ walletIsConnected(walletPage)
    /\ walletPage' = [walletPage EXCEPT !.session = "Disconnecting",
                                         !.disconnects = MoreRunning(@)]
    /\ UNCHANGED otherThanWalletPage

\* disconnect() of a run of handleDisconnect resolves: the session holds no
\* wallet from then on (a connect() that is under way goes on), and the run
\* calls setSolBalance(null)
WalletDisconnectResolved ==
    /\ walletPage.disconnects > 0
    /\ \E n \in FewerRunning(walletPage.disconnects) :
          walletPage' = [walletPage EXCEPT
                            !.session = IF @ = "Connecting" THEN @ ELSE "Disconnected",
                            !.wallet = <<>>,
                            !.solBalance = <<>>,
                            !.disconnects = n]
    /\ UNCHANGED otherThanWalletPage

\* disconnect() of a run rejects: the error is logged; the session is
\* connected as before when no other run awaits
WalletDisconnectRejected ==
    /\ walletPage.disconnects > 0
    /\ \E n \in FewerRunning(walletPage.disconnects) :
          walletPage' = [walletPage EXCEPT
                            !.session = IF @ = "Disconnecting" /\ n = 0 THEN "Connected"
                                        ELSE @,
                            !.disconnects = n]
    /\ UNCHANGED otherThanWalletPage

\* the Refresh button (disabled while loadingBalance) calls fetchBalance
WalletRefreshClicked ==
    /\ walletIsConnected(walletPage)
    /\ ~walletPage.loadingBalance
    /\ walletPage' = [walletPage EXCEPT !.loadingBalance = TRUE, !.fetches = MorePending(@)]
    /\ UNCHANGED otherThanWalletPage

\* getBalance of a fetchBalance resolves, whatever the session is by now
WalletBalanceResolved ==
    /\ walletPage.fetches > 0
    /\ \E b \in PageBalances, n \in FewerPending(walletPage.fetches) :
          walletPage' = [walletPage EXCEPT !.solBalance = << b >>,
                                           !.loadingBalance = FALSE,
                                           !.fetches = n]
    /\ UNCHANGED otherThanWalletPage

\* ... or rejects: the error is logged, the balance stays
WalletBalanceRejected ==
    /\ walletPage.fetches > 0
    /\ \E n \in FewerPending(walletPage.fetches) :
          walletPage' = [walletPage EXCEPT !.loadingBalance = FALSE, !.fetches = n]
    /\ UNCHANGED otherThanWalletPage

WalletPageNext ==
    \/ WalletConnectClicked
    \/ WalletConnectResolved
    \/ WalletConnectRejected
    \/ WalletDisconnectClicked
    \/ WalletDisconnectResolved
    \/ WalletDisconnectRejected
    \/ WalletRefreshClicked
    \/ WalletBalanceResolved
    \/ WalletBalanceRejected

\* ---------------------------------------------------------------------------
\* The home page: handleAuth, handleLogout, fetchBalance, handleTransfer
\* ---------------------------------------------------------------------------
\* the transaction signatures signAndSendTransaction resolves with
HomeSignatures == { SignatureText }

\* the argument of signAndSendTransaction in handleTransfer
homeRequest(instruction) ==
    [ instructions |-> << instruction >>,
      transactionOptions |-> [feeToken |-> "SOL"] ]

\* the authentication button (shown while not connected): handleAuth up to its
\* await
HomeAuthClicked ==
    /\ OpenPages \subseteq { "home" }
    /\ home.session = "Disconnected"
    /\ home' = [home EXCEPT !.session = "Connecting"]
    /\ UNCHANGED otherThanHome

\* connect() resolves; the effect on isConnected and wallet.smartWallet calls
\* fetchBalance and starts the polling
HomeAuthResolved ==
    /\ home.session = "Connecting"
    /\ \E address \in HookAddresses :
          home' = [home EXCEPT !.session = "Connected",
                               !.wallet = << address >>,
                               !.fetches = MorePending(@)]
    /\ UNCHANGED otherThanHome

\* connect() rejects: handleAuth catches nothing and sets nothing
HomeAuthRejected ==
    /\ home.session = "Connecting"
    /\ home' = [home EXCEPT !.session = "Disconnected"]
    /\ UNCHANGED otherThanHome

\* the interval of the effect calls fetchBalance
HomePollTick ==
    /\ walletIsConnected(home)
    /\ home' = [home EXCEPT !.fetches = MorePending(@)]
    /\ UNCHANGED otherThanHome

\* getBalance of a fetchBalance nobody awaits resolves, whatever the session
\* is by now
HomeBalanceResolved ==
    /\ home.fetches > 0
    /\ \E b \in PageBalances, n \in FewerPending(home.fetches) :
          home' = [home EXCEPT !.balance = << b >>, !.fetches = n]
    /\ UNCHANGED otherThanHome

\* ... or rejects: the error is logged
HomeBalanceRejected ==
    /\ home.fetches > 0
    /\ \E n \in FewerPending(home.fetches) :
          home' = [home EXCEPT !.fetches = n]
    /\ UNCHANGED otherThanHome

\* the Sign Out button (shown while isConnected, never disabled):
\* handleLogout up to its await, also while earlier runs still await
HomeLogoutClicked ==
    /\ walletIsConnected(home)
    /\ home' = [home EXCEPT !.session = "Disconnecting",
                            !.logouts = MoreRunning(@)]
    /\ UNCHANGED otherThanHome

\* disconnect() of a run of handleLogout resolves: the session holds no wallet
\* from then on (a connect() that is under way goes on), and the run resets
\* the balance, the form and the status
HomeLogoutResolved ==
    /\ home.logouts > 0
    /\ \E n \in FewerRunning(home.logouts) :
          home' = [home EXCEPT
                      !.session = IF @ = "Connecting" THEN @ ELSE "Disconnected",
                      !.wallet = <<>>,
                      !.balance = <<>>,
                      !.recipient = <<>>,
                      !.amount = <<>>,
                      !.status = <<>>,
                      !.logouts = n]
    /\ UNCHANGED otherThanHome

\* disconnect() of a run rejects: the setters after the await are skipped;
\* the session is connected as before when no other run awaits
HomeLogoutRejected ==
    /\ home.logouts > 0
    /\ \E n \in FewerRunning(home.logouts) :
          home' = [home EXCEPT
                      !.session = IF @ = "Disconnecting" /\ n = 0 THEN "Connected"
                                  ELSE @,
                      !.logouts = n]
    /\ UNCHANGED otherThanHome

\* the onChange handlers of the two inputs
HomeSetRecipient ==
    /\ walletIsConnected(home)
    /\ \E v \in HomeRecipients : home' = [home EXCEPT !.recipient = v]
    /\ UNCHANGED otherThanHome

HomeSetAmount ==
    /\ walletIsConnected(home)
    /\ \E v \in HomeAmounts : home' = [home EXCEPT !.amount = v]
    /\ UNCHANGED otherThanHome

\* parseFloat(amount) * LAMPORTS_PER_SOL, a Number that handleTransfer does
\* not round
homeLamports(amount) == DoubleMul(parseFloat(amount), DoubleOfInt(LAMPORTS_PER_SOL))

\* the Send button (disabled while isLoading): handleTransfer up to its await.
\* new PublicKey(recipient) throws inside the try for a text that is no
\* address, and SystemProgram.transfer throws for lamports that are no whole
\* number: catch and finally run at once and nothing is sent
HomeTransferClicked ==
    /\ walletIsConnected(home)
    /\ ~home.isLoading
    /\ IF home.recipient = <<>> \/ home.amount = <<>>
       THEN home' = [home EXCEPT !.status = Msg_EnterRecipientAndAmount]
       ELSE IF ~isValidPublicKey(home.recipient)
       THEN home' = [home EXCEPT
                        !.status = Msg_TransferFailedPrefix \o Err_InvalidPublicKey,
                        !.isLoading = FALSE]
       ELSE IF ~IsWholeNumber(homeLamports(home.amount))
       THEN home' = [home EXCEPT
                        !.status = Msg_TransferFailedPrefix
                                       \o Err_NoWholeNumber(homeLamports(home.amount)),
                        !.isLoading = FALSE]
       ELSE home' = [home EXCEPT
                        !.isLoading = TRUE,
                        !.status = Msg_Processing,
                        !.request = << homeRequest(SystemProgram_transfer(
                                           bs58decode(home.wallet[1]),
                                           bs58decode(home.recipient),
                                           IntOfDouble(homeLamports(home.amount)))) >>,
                        !.pc = "awaitSend"]
    /\ UNCHANGED otherThanHome

\* signAndSendTransaction resolves: the status shows the first 8 characters of
\* the signature, the form is cleared and fetchBalance is awaited
HomeSendResolved ==
    /\ home.pc = "awaitSend"
    /\ \E signature \in HomeSignatures :
          home' = [home EXCEPT
                      !.status = Msg_TransferSuccessfulPrefix \o SubSeq(signature, 1, 8)
                                     \o Msg_Ellipsis,
                      !.recipient = <<>>,
                      !.amount = <<>>,
                      !.request = <<>>,
                      !.pc = "awaitBalance"]
    /\ UNCHANGED otherThanHome

\* signAndSendTransaction rejects: catch and finally
HomeSendRejected ==
    /\ home.pc = "awaitSend"
    /\ \E message \in ErrorMessages :
          home' = [home EXCEPT
                      !.status = Msg_TransferFailedPrefix
                                     \o (IF message # <<>> THEN message
                                         ELSE Msg_UnknownError),
                      !.isLoading = FALSE,
                      !.request = <<>>,
                      !.pc = "idle"]
    /\ UNCHANGED otherThanHome

\* the awaited fetchBalance finishes, with a balance or with a logged error;
\* finally lowers isLoading
HomeRefreshed ==
    /\ home.pc = "awaitBalance"
    /\ \E b \in PageBalances \cup { -1 } :
          home' = [home EXCEPT !.balance = IF b = -1 THEN @ ELSE << b >>,
                               !.isLoading = FALSE,
                               !.pc = "idle"]
    /\ UNCHANGED otherThanHome

HomeNext ==
    \/ HomeAuthClicked
    \/ HomeAuthResolved
    \/ HomeAuthRejected
    \/ HomePollTick
    \/ HomeBalanceResolved
    \/ HomeBalanceRejected
    \/ HomeLogoutClicked
    \/ HomeLogoutResolved
    \/ HomeLogoutRejected
    \/ HomeSetRecipient
    \/ HomeSetAmount
    \/ HomeTransferClicked
    \/ HomeSendResolved
    \/ HomeSendRejected
    \/ HomeRefreshed

\* ---------------------------------------------------------------------------
\* The pages together: one of them is open in a run (OpenPages)
\* ---------------------------------------------------------------------------
PagesNext ==
    \/ MintPageNext
    \/ TransferNext
    \/ BalancesNext
    \/ WalletPageNext
    \/ HomeNext

SpecPages == Init /\ [][PagesNext]_vars

TypeOK ==
    /\ pc \in {"idle", "awaitTokenAccount", "awaitRent", "returned", "rejected"}
    /\ rentQueries \in 0..1

\* ---------------------------------------------------------------------------
\* Properties
\* ---------------------------------------------------------------------------
\* the royalty the caller asked for (0 when the field is absent)
RoyaltyOf(md) ==
    IF "sellerFeeBasisPoints" \in DOMAIN md THEN md.sellerFeeBasisPoints ELSE 0

\* the limits of section 4.2 of the specification
NameTooLong(md) == Len(BufferFromUtf8(md.name)) > 32
SymbolTooLong(md) == Len(BufferFromUtf8(md.symbol)) > 10
RoyaltyInRange(md) == RoyaltyOf(md) >= 0 /\ RoyaltyOf(md) <= 10000
ValidMetadata(md) ==
    /\ ~NameTooLong(md)
    /\ ~SymbolTooLong(md)
    /\ RoyaltyInRange(md)
    /\ md.uri # <<>>

Called == pc # "idle"
Finished == pc \in {"returned", "rejected"}

\* what an instruction is, read off its program and its payload
IsCreateAccount(ix) ==
    /\ ix.programId = SYSTEM_PROGRAM_ID
    /\ Len(ix.data) = 52
    /\ SubSeq(ix.data, 1, 4) = <<0, 0, 0, 0>>
IsInitializeMint(ix) ==
    ix.programId = TOKEN_PROGRAM_ID /\ Len(ix.data) = 67 /\ ix.data[1] = 0
IsCreateAssociatedTokenAccount(ix) ==
    ix.programId = ASSOCIATED_TOKEN_PROGRAM_ID /\ ix.data = <<>>
IsMintTo(ix) ==
    ix.programId = TOKEN_PROGRAM_ID /\ Len(ix.data) = 9 /\ ix.data[1] = 7
IsCreateMetadata(ix) ==
    ix.programId = TOKEN_METADATA_PROGRAM_ID /\ Len(ix.data) > 0 /\ ix.data[1] = 33
IsCreateMasterEdition(ix) ==
    ix.programId = TOKEN_METADATA_PROGRAM_ID /\ Len(ix.data) > 0 /\ ix.data[1] = 17

\* C1: every plan createNFTInstructions returns holds exactly six
\* instructions, in the order create mint account, initialize mint, create
\* associated token account, mint-to, create metadata account, create master
\* edition.
C1_SixInstructionsInOrder ==
    pc = "returned" =>
        LET ixs == result[1].instructions IN
        /\ Len(ixs) = 6
        /\ IsCreateAccount(ixs[1])
        /\ IsInitializeMint(ixs[2])
        /\ IsCreateAssociatedTokenAccount(ixs[3])
        /\ IsMintTo(ixs[4])
        /\ IsCreateMetadata(ixs[5])
        /\ IsCreateMasterEdition(ixs[6])

C1_Witness ==
    /\ pc = "returned"
    /\ ValidMetadata(metadata)
    /\ Len(result[1].instructions) = 6
    /\ IsCreateMetadata(result[1].instructions[5])

\* an unsigned little-endian integer of n bytes read at offset off
RECURSIVE readUIntLE(_, _, _)
readUIntLE(bytes, off, n) ==
    IF n = 0 THEN 0 ELSE bytes[off] + 256 * readUIntLE(bytes, off + 1, n - 1)

\* C2: for a royalty in 0..10000 the create-metadata payload is byte 33, then
\* name, symbol and uri each as a 4-byte little-endian UTF-8 byte length
\* followed by the UTF-8 bytes, then the royalty on 2 little-endian bytes,
\* then the bytes 0,0,0,1,0.
C2_MetadataPayloadLayout ==
    (pc = "returned" /\ RoyaltyInRange(metadata)) =>
        LET d == result[1].instructions[5].data
            n == BufferFromUtf8(metadata.name)
            s == BufferFromUtf8(metadata.symbol)
            u == BufferFromUtf8(metadata.uri)
            on == 2
            os == on + 4 + Len(n)
            ou == os + 4 + Len(s)
            orb == ou + 4 + Len(u)
        IN  /\ Len(d) = orb + 6
            /\ d[1] = 33
            /\ readUIntLE(d, on, 4) = Len(n)
            /\ SubSeq(d, on + 4, os - 1) = n
            /\ readUIntLE(d, os, 4) = Len(s)
            /\ SubSeq(d, os + 4, ou - 1) = s
            /\ readUIntLE(d, ou, 4) = Len(u)
            /\ SubSeq(d, ou + 4, orb - 1) = u
            /\ d[orb] = RoyaltyOf(metadata) % 256
            /\ d[orb + 1] = RoyaltyOf(metadata) \div 256
            /\ SubSeq(d, orb + 2, orb + 6) = <<0, 0, 0, 1, 0>>

\* the example of the specification: "N", "S", "U", 250
C2_Witness ==
    /\ pc = "returned"
    /\ metadata.name = <<78>>
    /\ metadata.symbol = <<83>>
    /\ metadata.uri = <<85>>
    /\ RoyaltyOf(metadata) = 250
    /\ result[1].instructions[5].data =
           << 33, 1, 0, 0, 0, 78, 1, 0, 0, 0, 83, 1, 0, 0, 0, 85,
              250, 0, 0, 0, 0, 1, 0 >>

\* C3: the create-master-edition payload of every plan is the 10 bytes
\* 17, 1, 0,0,0,0,0,0,0,0.
C3_MasterEditionPayload ==
    pc = "returned" =>
        result[1].instructions[6].data = <<17, 1, 0, 0, 0, 0, 0, 0, 0, 0>>

C3_Witness ==
    /\ pc = "returned"
    /\ IsCreateMasterEdition(result[1].instructions[6])
    /\ Len(result[1].instructions[6].data) = 10

\* C4: the create-metadata instruction targets the metadata program and lists
\* seven accounts: metadata (writable), mint (readonly), mint authority
\* (signer), payer (signer, writable), update authority (readonly, not
\* signer), system program (readonly), rent sysvar (readonly); the three
\* authorities are the payer of the call.
C4_MetadataAccounts ==
    pc = "returned" =>
        LET ix == result[1].instructions[5] IN
        /\ ix.programId = TOKEN_METADATA_PROGRAM_ID
        /\ ix.keys =
             << [pubkey |-> result[1].metadataAddress, isSigner |-> FALSE, isWritable |-> TRUE],
                [pubkey |-> result[1].mintAddress, isSigner |-> FALSE, isWritable |-> FALSE],
                [pubkey |-> payer, isSigner |-> TRUE, isWritable |-> FALSE],
                [pubkey |-> payer, isSigner |-> TRUE, isWritable |-> TRUE],
                [pubkey |-> payer, isSigner |-> FALSE, isWritable |-> FALSE],
                [pubkey |-> SYSTEM_PROGRAM_ID, isSigner |-> FALSE, isWritable |-> FALSE],
                [pubkey |-> SYSVAR_RENT_PUBKEY, isSigner |-> FALSE, isWritable |-> FALSE] >>

C4_Witness ==
    /\ pc = "returned"
    /\ Len(result[1].instructions[5].keys) = 7
    /\ result[1].instructions[5].keys[4].pubkey = payer
    /\ result[1].instructions[5].keys[1].pubkey = getMetadataAddress(mintAddress)

\* C5: the create-master-edition instruction targets the metadata program and
\* lists nine accounts: master edition (writable), mint (writable), update
\* authority (signer), mint authority (signer), payer (signer, writable),
\* metadata (writable), token program, system program, rent sysvar (readonly).
C5_MasterEditionAccounts ==
    pc = "returned" =>
        LET ix == result[1].instructions[6] IN
        /\ ix.programId = TOKEN_METADATA_PROGRAM_ID
        /\ ix.keys =
             << [pubkey |-> result[1].masterEditionAddress, isSigner |-> FALSE, isWritable |-> TRUE],
                [pubkey |-> result[1].mintAddress, isSigner |-> FALSE, isWritable |-> TRUE],
                [pubkey |-> payer, isSigner |-> TRUE, isWritable |-> FALSE],
                [pubkey |-> payer, isSigner |-> TRUE, isWritable |-> FALSE],
                [pubkey |-> payer, isSigner |-> TRUE, isWritable |-> TRUE],
                [pubkey |-> result[1].metadataAddress, isSigner |-> FALSE, isWritable |-> TRUE],
                [pubkey |-> TOKEN_PROGRAM_ID, isSigner |-> FALSE, isWritable |-> FALSE],
                [pubkey |-> SYSTEM_PROGRAM_ID, isSigner |-> FALSE, isWritable |-> FALSE],
                [pubkey |-> SYSVAR_RENT_PUBKEY, isSigner |-> FALSE, isWritable |-> FALSE] >>

C5_Witness ==
    /\ pc = "returned"
    /\ Len(result[1].instructions[6].keys) = 9
    /\ result[1].instructions[6].keys[1].pubkey = getMasterEditionAddress(mintAddress)
    /\ result[1].instructions[6].keys[6].pubkey = getMetadataAddress(mintAddress)

\* C6: a name longer than 32 UTF-8 bytes or a symbol longer than 10 UTF-8
\* bytes makes the call fail with MetadataFieldTooLong, and no instruction is
\* emitted.
C6_TooLongFieldFails ==
    (Called /\ (NameTooLong(metadata) \/ SymbolTooLong(metadata))) =>
        /\ result = <<>>
        /\ instructions = <<>>
        /\ Finished => thrown = "MetadataFieldTooLong"

\* C7: a royalty outside 0..10000 makes the call fail with InvalidRoyalty, no
\* instruction is emitted and no truncated or wrapped royalty is encoded.
C7_InvalidRoyaltyFails ==
    (Called /\ ~RoyaltyInRange(metadata)) =>
        /\ result = <<>>
        /\ instructions = <<>>
        /\ (Finished /\ ~NameTooLong(metadata) /\ ~SymbolTooLong(metadata))
               => thrown = "InvalidRoyalty"

\* C8: an empty URI makes the call fail with MissingMetadataUri and no
\* instruction is emitted.
C8_EmptyUriFails ==
    (Called /\ metadata.uri = <<>>) =>
        /\ result = <<>>
        /\ instructions = <<>>
        /\ (Finished /\ ~NameTooLong(metadata) /\ ~SymbolTooLong(metadata)
                     /\ RoyaltyInRange(metadata))
               => thrown = "MissingMetadataUri"

\* C9: a failed rent-exemption query is propagated unchanged: the call
\* rejects with the query's own error, returns no plan, has pushed no
\* instruction, and the query is issued at most once per invocation.
C9_RentFailurePropagated ==
    /\ rentQueries <= 1
    /\ rentFailure # "" =>
          /\ pc = "rejected"
          /\ thrown = rentFailure
          /\ result = <<>>
          /\ instructions = <<>>

C9_Witness ==
    /\ pc = "rejected"
    /\ rentFailure = "NetworkTimeout"
    /\ thrown = "NetworkTimeout"
    /\ rentQueries = 1

\* a UTF-8 decoder: the UTF-16 code units of the bytes from offset i on
RECURSIVE utf8Read(_, _)
utf8Read(bytes, i) ==
    IF i > Len(bytes) THEN <<>>
    ELSE LET b == bytes[i] IN
         IF b < 128 THEN <<b>> \o utf8Read(bytes, i + 1)
         ELSE IF b < 224
         THEN << (b - 192) * 64 + (bytes[i + 1] - 128) >> \o utf8Read(bytes, i + 2)
         ELSE IF b < 240
         THEN << (b - 224) * 4096 + (bytes[i + 1] - 128) * 64 + (bytes[i + 2] - 128) >>
                  \o utf8Read(bytes, i + 3)
         ELSE LET cp == (b - 240) * 262144 + (bytes[i + 1] - 128) * 4096
                          + (bytes[i + 2] - 128) * 64 + (bytes[i + 3] - 128)
              IN  << 55296 + ((cp - 65536) \div 1024), 56320 + ((cp - 65536) % 1024) >>
                      \o utf8Read(bytes, i + 4)

\* the published field layout read back: discriminator, three u32-LE
\* length-prefixed UTF-8 strings, u16-LE royalty
DecodeCreateMetadata(d) ==
    LET on == 2
        ln == readUIntLE(d, on, 4)
        os == on + 4 + ln
        ls == readUIntLE(d, os, 4)
        ou == os + 4 + ls
        lu == readUIntLE(d, ou, 4)
        orb == ou + 4 + lu
    IN  [ name |-> utf8Read(SubSeq(d, on + 4, os - 1), 1),
          symbol |-> utf8Read(SubSeq(d, os + 4, ou - 1), 1),
          uri |-> utf8Read(SubSeq(d, ou + 4, orb - 1), 1),
          royalty |-> readUIntLE(d, orb, 2) ]

\* C10: for a name, symbol, uri and royalty within the limits of the builder,
\* decoding the create-metadata payload of the returned plan recovers the
\* name, symbol, uri and royalty the builder was called with.
C10_RoundTrip ==
    (pc = "returned" /\ ValidMetadata(metadata)) =>
        DecodeCreateMetadata(result[1].instructions[5].data) =
            [ name |-> metadata.name,
              symbol |-> metadata.symbol,
              uri |-> metadata.uri,
              royalty |-> RoyaltyOf(metadata) ]

\* the keys and derived addresses of the two invocations that are points of
\* the curve
CurvePoints ==
    { a \in ConcMintKeys \cup { getMetadataAddress(k) : k \in ConcMintKeys }
                         \cup { getMasterEditionAddress(k) : k \in ConcMintKeys } :
          isOnCurve(a) }

DerivedCalls == { i \in CallIds : calls[i].pc \in {"awaitRent", "returned", "rejected"} }

C13_InitializeMint ==
    pc = "returned" =>
        LET ix == result[1].instructions[2] IN
        /\ ix.programId = TOKEN_PROGRAM_ID
        /\ ix.keys[1].pubkey = mintKeypair[1].publicKey
        /\ ix.keys[1].isWritable
        /\ Len(ix.data) = 67
        /\ ix.data[1] = 0
        /\ ix.data[2] = 0
        /\ SubSeq(ix.data, 3, 34) = payer
        /\ ix.data[35] = 1
        /\ SubSeq(ix.data, 36, 67) = payer

C13_Witness ==
    /\ pc = "returned"
    /\ IsInitializeMint(result[1].instructions[2])
    /\ SubSeq(result[1].instructions[2].data, 36, 67) = payer
    /\ payer = writeUIntLE(11, 32)

\* the units a list of instructions mints
RECURSIVE MintedUnits(_)
MintedUnits(ixs) ==
    IF ixs = <<>> THEN 0
    ELSE (IF IsMintTo(Head(ixs)) THEN readUIntLE(Head(ixs).data, 2, 8) ELSE 0)
         + MintedUnits(Tail(ixs))

\* C14: the mint-to instruction issues exactly 1 unit of the plan's mint into
\* the plan's token account with the payer as signing authority, and the
\* plan as a whole mints exactly one unit.
C14_MintExactlyOne ==
    pc = "returned" =>
        LET ix == result[1].instructions[4] IN
        /\ IsMintTo(ix)
        /\ readUIntLE(ix.data, 2, 8) = 1
        /\ ix.keys = << [pubkey |-> result[1].mintAddress, isSigner |-> FALSE, isWritable |-> TRUE],
                        [pubkey |-> result[1].tokenAccount, isSigner |-> FALSE, isWritable |-> TRUE],
                        [pubkey |-> payer, isSigner |-> TRUE, isWritable |-> FALSE] >>
        /\ result[1].tokenAccount = getAssociatedTokenAddress(result[1].mintAddress, payer)
        /\ MintedUnits(result[1].instructions) = 1
        /\ \A i \in {1, 2, 3, 5, 6} : ~IsMintTo(result[1].instructions[i])

C14_Witness ==
    /\ pc = "returned"
    /\ result[1].instructions[4].data = <<7, 1, 0, 0, 0, 0, 0, 0, 0>>
    /\ result[1].instructions[4].keys[2].pubkey = tokenAccount

\* C15: the account-creation instruction creates the account at the
\* generated mint, of the mint-account size, funded by the payer with the
\* lamports the rent query of this invocation returned, owned by the token
\* program.
C15_CreateMintAccount ==
    pc = "returned" =>
        LET ix == result[1].instructions[1] IN
        /\ ix.programId = SYSTEM_PROGRAM_ID
        /\ ix.keys = << [pubkey |-> payer, isSigner |-> TRUE, isWritable |-> TRUE],
                        [pubkey |-> mintKeypair[1].publicKey, isSigner |-> TRUE, isWritable |-> TRUE] >>
        /\ Len(ix.data) = 52
        /\ readUIntLE(ix.data, 1, 4) = 0
        /\ readUIntLE(ix.data, 5, 8) = mintRent
        /\ mintRent \in RentValues
        /\ readUIntLE(ix.data, 13, 8) = 82
        /\ SubSeq(ix.data, 21, 52) = TOKEN_PROGRAM_ID

C15_Witness ==
    /\ pc = "returned"
    /\ mintRent = 1461601
    /\ readUIntLE(result[1].instructions[1].data, 5, 8) = 1461601

\* C16: the description does not influence the plan: with any other
\* description and everything else equal, the instruction list (payloads
\* and account lists) is the one that was returned.
C16_DescriptionIgnored ==
    pc = "returned" =>
        \A d \in Descriptions :
            assembleInstructions(payer, mintAddress, tokenAccount, metadataAddress,
                                 masterEditionAddress, mintRent,
                                 [metadata EXCEPT !.description = d])
                = result[1].instructions

C16_Witness ==
    /\ pc = "returned"
    /\ metadata.description # <<>>
    /\ Len(result[1].instructions) = 6

\* the shape of an instruction list: per position the target program, the
\* payload length and the signer/writable flags of the account references
FlagsOf(ix) == [n \in 1 .. Len(ix.keys) |-> << ix.keys[n].isSigner, ix.keys[n].isWritable >>]
ShapeOf(ixs) ==
    [n \in 1 .. Len(ixs) |->
        [programId |-> ixs[n].programId, size |-> Len(ixs[n].data), flags |-> FlagsOf(ixs[n])]]

\* two invocations hold the keys of two calls of Keypair.generate()
OwnGeneratedKeys(i, j) ==
    \E n \in 1 .. Len(generated) : \E m \in (1 .. Len(generated)) \ {n} :
        /\ calls[i].mintKeypair[1].publicKey = generated[n]
        /\ calls[j].mintKeypair[1].publicKey = generated[m]

SameInputsReturned(i, j) ==
    /\ calls[i].pc = "returned"
    /\ calls[j].pc = "returned"
    /\ calls[i].payer = calls[j].payer
    /\ calls[i].metadata = calls[j].metadata

KeysOf(ixs) == UNION { { ixs[n].keys[m].pubkey : m \in 1 .. Len(ixs[n].keys) } : n \in 1 .. Len(ixs) }
WellKnownIds ==
    { SYSTEM_PROGRAM_ID, TOKEN_PROGRAM_ID, ASSOCIATED_TOKEN_PROGRAM_ID,
      TOKEN_METADATA_PROGRAM_ID, SYSVAR_RENT_PUBKEY }
\* the mint of an invocation and the three addresses derived from it
MintIdsOf(k, p) ==
    { k, getAssociatedTokenAddress(k, p), getMetadataAddress(k), getMasterEditionAddress(k) }

\* C17: under every interleaving, a returned plan refers to the mint its own
\* invocation generated and to the addresses derived from it, never to the
\* mint or a derived address of an invocation that generated another key,
\* and it is the plan a lone invocation with the same payer, metadata, key
\* and rent returns.
C17_InvocationsIndependent ==
    \A i \in CallIds :
        calls[i].pc = "returned" =>
            LET c == calls[i]
                k == c.mintKeypair[1].publicKey
                r == c.result[1]
            IN  /\ r.mintAddress = k
                /\ r.mintKeypair.publicKey = k
                /\ MintIdsOf(k, c.payer) \subseteq KeysOf(r.instructions)
                /\ KeysOf(r.instructions) \subseteq MintIdsOf(k, c.payer) \cup {c.payer} \cup WellKnownIds
                /\ \A j \in CallIds \ {i} :
                       (calls[j].pc # "idle" /\ calls[j].mintKeypair[1].publicKey # k) =>
                           KeysOf(r.instructions)
                               \cap MintIdsOf(calls[j].mintKeypair[1].publicKey, calls[j].payer)
                               = {}
                /\ r.instructions =
                       assembleInstructions(c.payer, k, getAssociatedTokenAddress(k, c.payer),
                           getMetadataAddress(k), getMasterEditionAddress(k),
                           c.mintRent, c.metadata)

\* both invocations were suspended at the rent query at the same time, the
\* second one returned first
C17_Witness ==
    /\ calls[1].pc = "awaitRent"
    /\ calls[2].pc = "returned"
    /\ generated[1] = calls[1].mintKeypair[1].publicKey
    /\ generated[2] = calls[2].mintKeypair[1].publicKey
    /\ calls[1].payer = calls[2].payer

\* C18: every request the mint flow passes to signAndSendTransaction names the
\* plan's mint keypair among its additional signers.
C18_MintKeypairCoSigns ==
    mintPage.request # <<>> =>
        /\ "signers" \in DOMAIN mintPage.request[1]
        /\ \E n \in 1 .. Len(mintPage.request[1].signers) :
               mintPage.request[1].signers[n] = mintPage.nftResult[1].mintKeypair

\* C19: every request the gasless transfer example passes to
\* signAndSendTransaction, on the web page and on the mobile screen, has
\* transactionOptions.feeToken = "SOL".
C19_FeeTokenSOL ==
    /\ transferPage.request # <<>> =>
           transferPage.request[1].transactionOptions.feeToken = "SOL"
    /\ sendScreen.request # <<>> =>
           sendScreen.request[1].transactionOptions.feeToken = "SOL"

\* the conditions of a transfer the claim C20 lists, on the form as it is at
\* the click
ValidAtClick(recipient, amount, balance, walletAddress) ==
    /\ recipient # <<>>
    /\ isValidPublicKey(recipient)
    /\ recipient # walletAddress
    /\ ~isNaN(parseFloat(amount))
    /\ ~NotPositive(parseFloat(amount))
    /\ balance # <<>> => ~ExceedsBalance(parseFloat(amount), balance[1])

C20_Step ==
    /\ (transferPage.request = <<>> /\ transferPage'.request # <<>>) =>
           ValidAtClick(transferPage.recipient, transferPage.amount,
                        transferPage.solBalance, transferPage.wallet[1])
    /\ (sendScreen.request = <<>> /\ sendScreen'.request # <<>>) =>
           ValidAtClick(sendScreen.recipient, sendScreen.amount,
                        sendScreen.balance, sendScreen.walletAddress[1])
    /\ ( /\ TransferClicked
         /\ ~ValidAtClick(transferPage.recipient, transferPage.amount,
                          transferPage.solBalance, transferPage.wallet[1]) ) =>
           /\ transferPage'.request = <<>>
           /\ transferPage'.error # <<>>
           /\ transferPage' = [transferPage EXCEPT !.error = transferPage'.error]
    /\ ( /\ SendClicked
         /\ ~ValidAtClick(sendScreen.recipient, sendScreen.amount,
                          sendScreen.balance, sendScreen.walletAddress[1]) ) =>
           /\ sendScreen'.request = <<>>
           /\ sendScreen'.alert # <<>>
           /\ sendScreen' = [sendScreen EXCEPT !.alert = sendScreen'.alert]

\* C20: a request appears only in a step taken from a form that satisfies
\* every condition (recipient a valid public key other than the own address,
\* amount a number above 0 and not above a known balance); a click on any
\* other form submits nothing and changes nothing but the reported error.
C20_SubmittedOnlyIfValid == [][C20_Step]_vars

\* a transfer to another address was submitted from the page while the
\* balance was known
C20_Witness ==
    /\ transferPage.pc = "awaitSend"
    /\ transferPage.request # <<>>
    /\ transferPage.request[1].instructions[1].keys[2].pubkey = bs58decode(OtherAddress)
    /\ transferPage.solBalance # <<>>

\* C25: in every returned plan the reported addresses are the identities the
\* instructions use: mintAddress is the public key of the returned mintKeypair
\* and the account instruction 1 creates, tokenAccount is the destination of
\* the mint-to instruction, metadataAddress is the first account of
\* instruction 5 and the sixth of instruction 6, masterEditionAddress is the
\* first account of instruction 6.
C25_PlanIdentities ==
    pc = "returned" =>
        LET plan == result[1]
            ixs == plan.instructions
        IN  /\ plan.mintAddress = plan.mintKeypair.publicKey
            /\ IsCreateAccount(ixs[1])
            /\ ixs[1].keys[2].pubkey = plan.mintAddress
            /\ IsMintTo(ixs[4])
            /\ ixs[4].keys[2].pubkey = plan.tokenAccount
            /\ ixs[5].keys[1].pubkey = plan.metadataAddress
            /\ ixs[6].keys[6].pubkey = plan.metadataAddress
            /\ ixs[6].keys[1].pubkey = plan.masterEditionAddress

C25_Witness ==
    /\ pc = "returned"
    /\ Len(result[1].instructions) = 6
    /\ result[1].metadataAddress # result[1].masterEditionAddress
    /\ result[1].tokenAccount # result[1].mintAddress
    /\ result[1].instructions[6].keys[1].pubkey = getMasterEditionAddress(result[1].mintAddress)

\* C22: in the gasless transfer flow a successful submission stores the
\* returned signature and clears the recipient and the amount; a failed
\* submission leaves the recipient and the amount as they are, leaves the
\* stored signature null and sets an error message (on the mobile screen: an
\* alert with the message).
C22_Step ==
    /\ (transferPage.pc = "awaitSend" /\ transferPage'.pc = "awaitBalance") =>
          /\ \E signature \in Signatures : transferPage'.txSignature = << signature >>
          /\ transferPage'.recipient = <<>>
          /\ transferPage'.amount = <<>>
    /\ (transferPage.pc = "awaitSend" /\ transferPage'.pc = "idle") =>
          /\ transferPage'.recipient = transferPage.recipient
          /\ transferPage'.amount = transferPage.amount
          /\ transferPage'.txSignature = <<>>
          /\ transferPage'.error # <<>>
          /\ transferPage'.error[1] # <<>>
    /\ (sendScreen.pc = "awaitSend" /\ sendScreen'.pc = "awaitBalance") =>
          /\ \E signature \in Signatures : sendScreen'.txSignature = << signature >>
          /\ sendScreen'.recipient = <<>>
          /\ sendScreen'.amount = <<>>
    /\ (sendScreen.pc = "awaitSend" /\ sendScreen'.pc = "idle") =>
          /\ sendScreen'.recipient = sendScreen.recipient
          /\ sendScreen'.amount = sendScreen.amount
          /\ sendScreen'.txSignature = <<>>
          /\ sendScreen'.alert # <<>>
          /\ sendScreen'.alert[1].title = Title_TransferFailed
          /\ sendScreen'.alert[1].message # <<>>

C22_SubmissionEffects == [][C22_Step]_vars

\* a submission has failed with the form still filled in, on the page (the
\* message is one only the catch block produces)
C22_Witness ==
    /\ transferPage.pc = "idle"
    /\ transferPage.error = << Msg_Cancelled >>
    /\ transferPage.recipient = OtherAddress
    /\ transferPage.amount # <<>>
    /\ transferPage.txSignature = <<>>

\* C26: on the mint page and on the gasless transfer page a success record
\* (mintedNFT, respectively txSignature) and an error message are never both
\* non-null.
C26_SuccessOrError ==
    /\ ~(mintPage.mintedNFT # <<>> /\ mintPage.error # <<>>)
    /\ ~(transferPage.txSignature # <<>> /\ transferPage.error # <<>>)

\* C29: on the mobile send screen a balance query that fails leaves the
\* balance shown before unchanged (it is not replaced by 0), so a failed
\* refresh never makes a later transfer be refused as exceeding the balance.
C29_Step ==
    LET queryDone ==
            \/ sendScreen.fetches > 0
                  /\ sendScreen'.fetches \in FewerPending(sendScreen.fetches)
            \/ sendScreen.pc = "awaitBalance" /\ sendScreen'.pc = "idle"
    IN  (queryDone /\ sendScreen'.lastQuery = "failed") =>
            sendScreen'.balance = sendScreen.balance

C29_FailedQueryKeepsBalance == [][C29_Step]_vars

\* C23: the output of processInstructionsForLazorKit holds no instruction of
\* the ComputeBudget program, and every instruction of the output lists the
\* smart wallet among its account keys.
C23_NoComputeBudgetAllListWallet ==
    proc.pc \in { "returned", "reapplied" } =>
        \A n \in 1 .. Len(proc.output) :
            /\ proc.output[n].programId # COMPUTE_BUDGET_PROGRAM_ID
            /\ \E m \in 1 .. Len(proc.output[n].keys) :
                  proc.output[n].keys[m].pubkey = bs58decode(proc.smartWalletAddress)

\* a list with a compute-budget instruction and an instruction that lacks the
\* wallet has been processed
C23_Witness ==
    /\ proc.pc = "returned"
    /\ Len(proc.instructions) = 3
    /\ Len(proc.output) = 2
    /\ \E n \in 1 .. 3 : proc.instructions[n].programId = COMPUTE_BUDGET_PROGRAM_ID
    /\ \E n \in 1 .. 3 : /\ proc.instructions[n].programId # COMPUTE_BUDGET_PROGRAM_ID
                         /\ \A m \in 1 .. Len(proc.instructions[n].keys) :
                               proc.instructions[n].keys[m].pubkey
                                   # bs58decode(proc.smartWalletAddress)

\* the positions of the input that hold no compute-budget instruction, in
\* ascending order
RECURSIVE KeptPositions(_, _)
KeptPositions(ixs, n) ==
    IF n > Len(ixs) THEN <<>>
    ELSE IF ixs[n].programId = COMPUTE_BUDGET_PROGRAM_ID THEN KeptPositions(ixs, n + 1)
    ELSE << n >> \o KeptPositions(ixs, n + 1)

\* C30: processInstructionsForLazorKit keeps the relative order of the
\* instructions it keeps, returns a kept instruction that lists the smart
\* wallet unchanged, changes nothing on the others but the appended readonly
\* non-signer smart-wallet key (program and payload are kept), and applying it
\* twice with the same wallet gives what applying it once gives.
C30_OrderFrameIdempotent ==
    /\ proc.pc \in { "returned", "reapplied" } =>
          LET smartWallet == bs58decode(proc.smartWalletAddress)
              pos == KeptPositions(proc.instructions, 1)
          IN  /\ Len(proc.output) = Len(pos)
              /\ \A n \in 1 .. Len(pos) :
                    LET ix == proc.instructions[pos[n]]
                        out == proc.output[n]
                    IN  IF \E m \in 1 .. Len(ix.keys) : ix.keys[m].pubkey = smartWallet
                        THEN out = ix
                        ELSE /\ out.programId = ix.programId
                             /\ out.data = ix.data
                             /\ out.keys = ix.keys \o << [pubkey |-> smartWallet,
                                                          isSigner |-> FALSE,
                                                          isWritable |-> FALSE] >>
    /\ proc.pc = "reapplied" => proc.again = proc.output

\* the function has been applied twice to a list of which it dropped one
\* instruction, returned one unchanged and extended one
C30_Witness ==
    /\ proc.pc = "reapplied"
    /\ Len(proc.instructions) = 3
    /\ Len(proc.output) = 2
    /\ \E n \in 1 .. 2, m \in 1 .. 3 : proc.output[n] = proc.instructions[m]
    /\ \E n \in 1 .. 2 : \A m \in 1 .. 3 : proc.output[n] # proc.instructions[m]

\* C24: fetchBalances without a wallet address resets the SOL and the USDC
\* balance to null without raising the loading flag or querying the network;
\* with an address, a missing USDC token account yields a USDC balance of 0
\* while the SOL balance stays set, and the loading flag is false once a
\* fetch has finished, whether it succeeded or failed.
C24_Step ==
    /\ (balances'.event = "callNull" /\ balances' # balances) =>
          /\ balances'.solBalance = <<>>
          /\ balances'.usdcBalance = <<>>
          /\ balances'.loading = balances.loading
          /\ balances'.awaitBalance = balances.awaitBalance
          /\ balances'.awaitAccount = balances.awaitAccount
    /\ (balances'.event = "accountMissing" /\ balances' # balances) =>
          /\ balances'.usdcBalance = << 0 >>
          /\ balances'.solBalance = balances.solBalance
    /\ (balances'.event \in { "solRejected", "accountResolved", "accountMissing" }
          /\ balances' # balances) =>
          balances'.loading = FALSE

C24_FetchBalancesOutcomes == [][C24_Step]_vars

\* a fetch has just ended on the missing token account: SOL set, USDC 0
C24_Witness ==
    /\ balances.event = "accountMissing"
    /\ balances.smartWalletAddress # <<>>
    /\ balances.solBalance # <<>>
    /\ balances.usdcBalance = << 0 >>
    /\ ~balances.loading

\* C28: the balance state belongs to the current session: while no wallet
\* address is set (the hook's address is null, the session of a page is
\* Disconnected or Connecting) the balances are null, so that no fetch started
\* for an earlier address has overwritten them after the logout, and none
\* was kept from the session before.
C28_BalanceOfCurrentSession ==
    /\ balances.smartWalletAddress = <<>> =>
          balances.solBalance = <<>> /\ balances.usdcBalance = <<>>
    /\ ~walletIsConnected(walletPage) => walletPage.solBalance = <<>>
    /\ ~walletIsConnected(home) => home.balance = <<>>
    /\ ~mintPage.isConnected => mintPage.solBalance = <<>>
    /\ ~transferPage.isConnected => transferPage.solBalance = <<>>
    /\ ~sendScreen.isConnected => sendScreen.balance = <<>>

\* a step starts a call of createNFTInstructions (of signAndSendTransaction)
\* from a click: the handler comes to await it, or awaits it with new arguments
StartsBuild(before, after) ==
    /\ after.pc = "awaitBuild"
    /\ before.pc # "awaitBuild" \/ after.metadata # before.metadata
StartsSend(before, after) ==
    /\ after.pc = "awaitSend"
    /\ before.pc # "awaitSend" \/ after.request # before.request

\* C27: at most one mint or transfer is in flight on a page: the busy flag is
\* up for as long as a handler runs, and a step starts a call of
\* createNFTInstructions or signAndSendTransaction only while the flag is down
\* and no handler runs (on the mint page signAndSendTransaction is started by
\* the one running handler when createNFTInstructions has resolved), however
\* clicks and pending calls interleave.
C27_Step ==
    /\ mintPage.pc # "idle" => mintPage.isMinting
    /\ transferPage.pc # "idle" => transferPage.isTransferring
    /\ sendScreen.pc # "idle" => sendScreen.isSending
    /\ home.pc # "idle" => home.isLoading
    /\ StartsBuild(mintPage, mintPage') => ~mintPage.isMinting /\ mintPage.pc = "idle"
    /\ StartsSend(mintPage, mintPage') => mintPage.pc = "awaitBuild"
    /\ StartsSend(transferPage, transferPage') =>
          ~transferPage.isTransferring /\ transferPage.pc = "idle"
    /\ StartsSend(sendScreen, sendScreen') => ~sendScreen.isSending /\ sendScreen.pc = "idle"
    /\ StartsSend(home, home') => ~home.isLoading /\ home.pc = "idle"

C27_AtMostOneInFlight == [][C27_Step]_vars

\* a transfer of the transfer page is in flight while a balance query is
\* pending, and the form holds another transfer that passes the validation
C27_Witness ==
    /\ transferPage.isTransferring
    /\ transferPage.pc = "awaitSend"
    /\ transferPage.fetches > 0
    /\ transferPage.recipient # <<>>
    /\ transferPage.wallet # <<>>
    /\ transferPage.amount # <<>>
    /\ transferValidateInputs(transferPage) = <<>>
    /\ transferPage.request # << transferRequest(SystemProgram_transfer(
                                     bs58decode(transferPage.wallet[1]),
                                     bs58decode(transferPage.recipient),
                                     lamportsOf(parseFloat(transferPage.amount)))) >>

\* the SDK call a handler awaits settles in this step: connect() on the smart
\* wallet page, signAndSendTransaction on the others
ConnectSettles == walletPage.session = "Connecting" /\ walletPage'.session # "Connecting"
SendSettles(before, after) == before.pc = "awaitSend" /\ after.pc # "awaitSend"

\* C21, as stated: the busy flag a handler has raised (isConnecting,
\* isMinting, isTransferring, isSending) is false again once the awaited SDK
\* call has resolved or rejected, on the success and on the failure path.
C21_LoweredWhenSdkCallSettlesStep ==
    /\ ConnectSettles => ~walletPage'.isConnecting
    /\ SendSettles(mintPage, mintPage') => ~mintPage'.isMinting
    /\ SendSettles(transferPage, transferPage') => ~transferPage'.isTransferring
    /\ SendSettles(sendScreen, sendScreen') => ~sendScreen'.isSending

C21_LoweredWhenSdkCallSettles == [][C21_LoweredWhenSdkCallSettlesStep]_vars

\* the handler run of a page ends in this step
RunEnds(before, after) == before.pc # "idle" /\ after.pc = "idle"

\* C21, amended: the busy flag a handler has raised is false again once the
\* handler has finished: as soon as the awaited SDK call has rejected, and,
\* when it has resolved, as soon as the balance refresh that handleMintNFT,
\* handleTransfer and handleSend then await has finished (handleConnect awaits
\* nothing more); the flag is never up while no handler runs.
C21_Step ==
    /\ ConnectSettles => ~walletPage'.isConnecting
    /\ walletPage.isConnecting => walletPage.session = "Connecting"
    /\ \A pair \in { << mintPage, mintPage' >>, << transferPage, transferPage' >>,
                     << sendScreen, sendScreen' >> } :
          SendSettles(pair[1], pair[2]) => pair[2].pc \in { "idle", "awaitBalance" }
    /\ RunEnds(mintPage, mintPage') => ~mintPage'.isMinting
    /\ RunEnds(transferPage, transferPage') => ~transferPage'.isTransferring
    /\ RunEnds(sendScreen, sendScreen') => ~sendScreen'.isSending
    /\ mintPage.isMinting => mintPage.pc # "idle"
    /\ transferPage.isTransferring => transferPage.pc # "idle"
    /\ sendScreen.isSending => sendScreen.pc # "idle"

C21_LoweredWhenHandlerFinished == [][C21_Step]_vars

\* a transfer has gone through: the signature is shown, the balance has been
\* refreshed and isTransferring is down again
C21_Witness ==
    /\ transferPage.txSignature # <<>>
    /\ transferPage.solBalance # <<>>
    /\ transferPage.pc = "idle"
    /\ ~transferPage.isTransferring

====
